---- MODULE Spec2Model ----
(***************************************************************************)
(* Vault execution and continuation engine of the DCA contract             *)
(* (contracts/dca): vault store, trigger store, continuation caches,       *)
(* disburse-escrow tasks and event log, with the handlers that mutate      *)
(* them.  Every inbound request and every resume (reply) is one atomic     *)
(* step: a handler that returns an error or panics leaves the store        *)
(* untouched; only the response recorded in `last` tells that it ran.      *)
(***************************************************************************)
EXTENDS Integers, Sequences, FiniteSets, TLC

\* ------------------------------------------------------------------ bounds
MaxTime == 1
MaxEvents == 3
MaxBalance == 4
MaxOutstanding == 2

\* ------------------------------------------------------- program constants
ONE_HUNDRED == 100000000
DestinationsLimit == 10
AFTER_LIMIT_ORDER_PLACED_REPLY_ID == 1
AFTER_FAILED_AUTOMATION_REPLY_ID == 3
AFTER_DELEGATION_REPLY_ID == 4
AFTER_ORDER_MIGRATION_REPLY_ID == 5
FAIL_SILENTLY_REPLY_ID == 6
FeePercent == 2000000

\* ------------------------------------------------------------ value spaces
VaultIds == {1, 2}
Senders == {"admin", "owner", "stranger"}
Admin == "admin"
Executors == {"admin"}
FeeCollector == "collector"
DepositAmounts == {1, 3}
SwapAmounts == {0, 3}
ReceivedAmounts == {120}
\* fin_helpers::codes: the venue's error codes
ERROR_SWAP_SLIPPAGE == "slippage"
ERROR_SWAP_INSUFFICIENT_FUNDS == "insufficient_funds"

\* An error text of the venue, as the set of error codes that occur in it: neither, either
\* one, or both.
SwapErrors == SUBSET {ERROR_SWAP_SLIPPAGE, ERROR_SWAP_INSUFFICIENT_FUNDS}

\* str::contains
Contains(e, code) == code \in e

NoTrigger == [kind |-> "None", target_time |-> 0, order_idx |-> 0]
TimeTrigger(t) == [kind |-> "Time", target_time |-> t, order_idx |-> 0]
PriceTrigger(idx) == [kind |-> "Price", target_time |-> 0, order_idx |-> idx]

NoTime == -1

\* Option<T> of a request field
Some(value) == [some |-> TRUE, value |-> value]
NoAmount == [some |-> FALSE, value |-> 0]
NoDestinations == [some |-> FALSE, value |-> <<>>]
NoInterval == [some |-> FALSE, value |-> 0]

\* PerformanceAssessmentStrategy::CompareToStandardDca { swapped_amount, .. }, or none
CompareToStandardDca(swapped_amount) == [some |-> TRUE, value |-> swapped_amount]
NoBaseline == [some |-> FALSE, value |-> 0]

\* SwapAdjustmentStrategy: a weighted scale, or the risk weighted average
WeightedScale(base_receive_amount, multiplier) ==
    [kind |-> "WeightedScale", base_receive_amount |-> base_receive_amount,
     multiplier |-> multiplier]
RiskWeightedAverage ==
    [kind |-> "RiskWeightedAverage", base_receive_amount |-> 0, multiplier |-> 0]
NoStrategy == [some |-> FALSE, value |-> RiskWeightedAverage]

VARIABLES
    vaults,                       \* bounty_store: id -> BountyData
    triggers,                     \* trigger store: id -> trigger configuration
    tasks,                        \* disburse-escrow tasks: id -> due date or NoTime
    CACHE,                        \* single-slot swap continuation cache (vault id, 0 = never saved)
    BOUNTY_ID_CACHE,              \* single-slot id cache of the follow-up resume
    POST_EXECUTION_ACTION_CACHE,  \* id -> queue of pending follow-up entries
    events,                       \* append-only event log
    now,                          \* env.block.time
    swapCalls,                    \* id -> swap calls issued for the vault, result not yet delivered
    swapAnswered,                 \* ids whose swap call already had a result delivered
    paused,                       \* config.paused
    bounty_indexes,               \* bounty_store's index tables: owner and owner_status
    followupCalls,                \* id -> follow-up calls issued for the vault, result not yet delivered
    last                          \* response of the request handled last

vars == <<vaults, triggers, tasks, CACHE, BOUNTY_ID_CACHE, POST_EXECUTION_ACTION_CACHE,
          events, now, swapCalls, swapAnswered, followupCalls, paused, bounty_indexes, last>>

store == <<vaults, triggers, tasks, CACHE, BOUNTY_ID_CACHE, POST_EXECUTION_ACTION_CACHE, events>>

\* ------------------------------------------------------------ vault record
Destination(address, allocation, msg) ==
    [address |-> address, allocation |-> allocation, msg |-> msg]

Bounty(status, balance, escrowed, dests) ==
    [owner |-> "owner", status |-> status, balance |-> balance, swap_amount |-> 2,
     deposited_amount |-> balance, escrowed_amount |-> escrowed, started_at |-> NoTime,
     time_interval |-> 1, destinations |-> dests,
     minimum_receive_amount |-> NoAmount, swap_adjustment_strategy |-> NoStrategy,
     performance_assessment_strategy |-> NoBaseline]

\* ------------------------------------------------------------ vault store
\* BountyStatus as u8: the position of the variant in the enum
StatusCode(status) ==
    CASE status = "Scheduled" -> 0
      [] status = "Active" -> 1
      [] status = "Inactive" -> 2
      [] status = "Cancelled" -> 3

\* the index functions of bounty_store: (owner, id) and (owner, status as u8, id)
OwnerKey(id, bounty) == <<bounty.owner, id>>
OwnerStatusKey(id, bounty) == <<bounty.owner, StatusCode(bounty.status), id>>

\* a save that writes the entries of the new data and leaves those of the old in place
SaveIndexes_KeepsOld(indexes, id, old, new) ==
    [owner |-> indexes.owner \cup {OwnerKey(id, new)},
     owner_status |-> indexes.owner_status \cup {OwnerStatusKey(id, new)}]

\* update_bounty: the save of an indexed map removes the entries derived from the data
\* stored before and writes those derived from the new data.  Each table is kept as the
\* set of its keys: the copy of the data an entry holds is the data saved last, which
\* is what the map holds under the id the key ends with.
SaveIndexes(indexes, id, old, new) ==
    [owner |-> (indexes.owner \ {OwnerKey(id, old)}) \cup {OwnerKey(id, new)},
     owner_status |-> (indexes.owner_status \ {OwnerStatusKey(id, old)})
                          \cup {OwnerStatusKey(id, new)}]

\* save_bounty of every vault of a store: the tables as the creations leave them
IndexesOf(stored) ==
    [owner |-> {OwnerKey(id, stored[id]) : id \in DOMAIN stored},
     owner_status |-> {OwnerStatusKey(id, stored[id]) : id \in DOMAIN stored}]

\* The tables after a step: the vault the step wrote (a handler writes at most the one
\* it works on) was saved through update_bounty.
Saved ==
    bounty_indexes' =
        IF vaults' = vaults
        THEN bounty_indexes
        ELSE LET id == CHOOSE v \in VaultIds : vaults'[v] # vaults[v]
             IN  SaveIndexes(bounty_indexes, id, vaults[id], vaults'[id])

\* the denom of every vault's balance, and another one
BalanceDenom == "ukuji"
OtherDenom == "uusk"

Coin(denom, amount) == [denom |-> denom, amount |-> amount]

\* ---------------------------------------------------------------- messages
BankSend(to, amount) == [kind |-> "bank_send", to |-> to, amount |-> amount]
WasmExecute(kind, to, amount) == [kind |-> kind, to |-> to, amount |-> amount]

\* ------------------------------------------------------------------ events
\* the message of an event that carries none
NoMessage == [kind |-> "none", to |-> "", amount |-> 0]

\* the amounts, the skipped reason and the attempted message an event carries (0, "" and
\* NoMessage for the fields its kind does not have)
EventData(amount, fee, reason) ==
    [amount |-> amount, fee |-> fee, reason |-> reason, msg |-> NoMessage]

\* the id create_event draws from the event counter: one more than the events stored
NextEventId == Len(events) + 1

\* the event stored under the id of its vault
Build_IdOfResource(resource_id, kind, data, id) ==
    [id |-> resource_id, resource_id |-> resource_id, timestamp |-> now,
     kind |-> kind, data |-> data]

\* EventBuilder::new(..).build(id)
Build(resource_id, kind, data, id) ==
    [id |-> id, resource_id |-> resource_id, timestamp |-> now,
     kind |-> kind, data |-> data]

Event(resource_id, kind, data) == Build(resource_id, kind, data, NextEventId)

\* ---------------------------------------------------------------- responses
\* op: the handler; vault: the vault it loaded; for: the vault the request or the
\* answered call belongs to; error: why it failed ("" when it returned Ok).  An Err
\* carries the handler and the error alone.
Response(op, vault, for, ok, msgs) ==
    [op |-> op, vault |-> vault, for |-> for, ok |-> ok, msgs |-> msgs, error |-> "",
     attrs |-> <<>>]

\* add_attribute: a key (with the number formatted into it, 0 for none) and its value;
\* a coin value is kept as its amount
Attribute(key, num, value) == [key |-> key, num |-> num, value |-> value]

\* A request that returns Err or panics: nothing it wrote is committed.
Reject(op, error) ==
    /\ last' = [Response(op, 0, 0, FALSE, <<>>) EXCEPT !.error = error]
    /\ UNCHANGED store

\* ------------------------------------------------------------- time helpers
\* helpers::time::get_next_target_time: the interval applied to the previous target time
GetNextTargetTime(current_time, previous, interval) == previous + interval

\* helpers::time::get_total_execution_duration: executions times the interval length
GetTotalExecutionDuration(current_time, executions, interval) == executions * interval

\* ------------------------------------------------------------ vault methods
LowFunds(vault) == vault.balance < vault.swap_amount

GetSwapAmount(vault) == vault.swap_amount

\* a vault that has not started counted as inactive too
IsInactive_OrScheduled(bounty) == bounty.status \in {"Inactive", "Scheduled"}

IsInactive(bounty) == bounty.status = "Inactive"

IsActive(bounty) == bounty.status = "Active"

\* checked_div(self.swap_amount).unwrap() panics on a zero swap amount
ExpectedDateDefined(bounty) == bounty.swap_amount # 0

\* the baseline's remaining notional left out
RemainingBalance_OfBalanceAlone(bounty) == bounty.balance

\* the balance, or with a baseline the larger of it and what the baseline has left
RemainingBalance(bounty) ==
    IF bounty.performance_assessment_strategy.some
    THEN LET left == bounty.deposited_amount - bounty.performance_assessment_strategy.value
         IN  IF left > bounty.balance THEN left ELSE bounty.balance
    ELSE bounty.balance

GetExpectedExecutionCompletedDate(bounty, current_time) ==
    current_time
        + GetTotalExecutionDuration(current_time,
                                    RemainingBalance(bounty) \div bounty.swap_amount,
                                    bounty.time_interval)

\* -------------------------------------------------------------- validation
\* assert_vault_is_not_cancelled left out
AssertVaultIsNotCancelled_Skipped(vault) == TRUE

AssertVaultIsNotCancelled(vault) == vault.status # "Cancelled"

AssertSenderIsAdminOrVaultOwner(vault_owner, sender) == sender = Admin \/ sender = vault_owner

AssetSenderIsVaultOwner(vault_owner, sender) == sender = vault_owner

AssertSenderIsExecutor(sender) == sender \in Executors

\* a trigger due only after its target time has passed
AssertTargetTimeIsInPast_Strict(current_time, target_time) == current_time > target_time

AssertTargetTimeIsInPast(current_time, target_time) == ~(current_time < target_time)

AssertContractIsNotPaused == ~paused

\* an interval below the minimum is refused
AssertTimeIntervalIsValid(time_interval) == time_interval > 0

AssertWeightedScaleMultiplierIsNoMoreThan10(multiplier) == multiplier <= 10

\* only the empty list of coins refused
AssertExactlyOneAsset_AllowsSeveral(funds) == ~(funds = <<>>)

AssertExactlyOneAsset(funds) == ~(funds = <<>> \/ Len(funds) > 1)

AssertDepositedDenomMatchesSendDenom(deposit_denom, send_denom) == deposit_denom = send_denom

\* the limit on the destinations left out
AssertDestinationsLimitIsNotBreached_Skipped(destinations) == TRUE

AssertDestinationsLimitIsNotBreached(destinations) == ~(Len(destinations) > DestinationsLimit)

AssertNoDestinationAllocationsAreZero(destinations) ==
    \A i \in DOMAIN destinations : destinations[i].allocation # 0

\* the fold over the allocations, in percent
RECURSIVE AllocationSum(_)
AllocationSum(destinations) ==
    IF destinations = <<>> THEN 0
    ELSE Head(destinations).allocation + AllocationSum(Tail(destinations))

\* the check on the sum left out
AssertDestinationAllocationsAddUpToOne_Skipped(destinations) == TRUE

AssertDestinationAllocationsAddUpToOne(destinations) == AllocationSum(destinations) = 100

\* =================================================================== Init
OwnerOnly == <<Destination("owner", 100, FALSE)>>
OwnerAndContract == <<Destination("owner", 50, FALSE), Destination("contract", 50, TRUE)>>

\* A vault as create leaves it (Scheduled or Active, its trigger saved) or as an
\* execution that ran it low leaves it (Inactive, the next trigger saved).
Live ==
    { [status |-> "Active", balance |-> 3, escrowed |-> 2, trigger |-> TimeTrigger(0),
       destinations |-> OwnerAndContract],
      [status |-> "Inactive", balance |-> 1, escrowed |-> 0, trigger |-> TimeTrigger(0),
       destinations |-> OwnerOnly] }

\* The second vault: one that was cancelled and emptied earlier, one that waits on a
\* limit order, or one that ran dry.
Others ==
    { [status |-> "Cancelled", balance |-> 0, escrowed |-> 0, trigger |-> NoTrigger,
       destinations |-> OwnerOnly] }

Init ==
    \E p1 \in Live, p2 \in Others :
        /\ vaults = (1 :> Bounty(p1.status, p1.balance, p1.escrowed, p1.destinations)
                     @@ 2 :> Bounty(p2.status, p2.balance, p2.escrowed, p2.destinations))
        /\ triggers = (1 :> p1.trigger @@ 2 :> p2.trigger)
        /\ tasks = [v \in VaultIds |-> NoTime]
        /\ CACHE = 0
        /\ BOUNTY_ID_CACHE = 0
        /\ POST_EXECUTION_ACTION_CACHE = [v \in VaultIds |-> <<>>]
        /\ events = <<>>
        /\ now = 0
        /\ swapCalls = [v \in VaultIds |-> 0]
        /\ swapAnswered = {}
        /\ followupCalls = [v \in VaultIds |-> 0]
        /\ paused = FALSE
        /\ bounty_indexes = IndexesOf(vaults)
        /\ last = Response("instantiate", 0, 0, TRUE, <<>>)

\* ================================================================ deposit
\* the deposit added to the balance and not to the deposited amount
DepositedBounty_BalanceOnly(bounty, amount) ==
    [bounty EXCEPT !.balance = @ + amount,
                   !.status = IF IsInactive(bounty) THEN "Active" ELSE @]

DepositedBounty(bounty, amount) ==
    [bounty EXCEPT !.balance = @ + amount,
                   !.deposited_amount = @ + amount,
                   !.status = IF IsInactive(bounty) THEN "Active" ELSE @]

\* the save without the test for an existing trigger
DepositTrigger_Overwrites(bounty, was_inactive, trigger, current_time) ==
    IF IsActive(bounty) /\ was_inactive
    THEN TimeTrigger(GetNextTargetTime(
             current_time,
             IF bounty.started_at = NoTime THEN current_time ELSE bounty.started_at,
             bounty.time_interval))
    ELSE trigger

DepositTrigger(bounty, was_inactive, trigger, current_time) ==
    IF IsActive(bounty) /\ was_inactive /\ trigger = NoTrigger
    THEN TimeTrigger(GetNextTargetTime(
             current_time,
             IF bounty.started_at = NoTime THEN current_time ELSE bounty.started_at,
             bounty.time_interval))
    ELSE trigger

\* the deposit recorded by no event
DepositEvent_NotCreated(v, amount) == <<>>

\* create_event: the deposit and its amount
DepositEvent(v, amount) == <<Event(v, "FundsDeposited", EventData(amount, 0, ""))>>

DepositHandler(v, address, funds) ==
    LET bounty == vaults[v]
        amount == funds[1].amount
        updated == DepositedBounty(bounty, amount)
    IN  /\ \A i \in DOMAIN funds : bounty.balance + funds[i].amount <= MaxBalance
        /\ Len(events) < MaxEvents
        /\ UNCHANGED <<paused, now, swapCalls, swapAnswered, followupCalls>>
        /\ IF ~AssertContractIsNotPaused
           THEN Reject("deposit", "contract is paused")
           ELSE IF ~AssertExactlyOneAsset(funds)
           THEN Reject("deposit", "required exactly 1 denom")
           ELSE IF address # bounty.owner
           THEN Reject("deposit", "Unauthorized")
           ELSE IF ~AssertVaultIsNotCancelled(bounty)
           THEN Reject("deposit", "vault is already cancelled")
           ELSE IF ~AssertDepositedDenomMatchesSendDenom(funds[1].denom, BalanceDenom)
           THEN Reject("deposit", "denom mismatch")
           ELSE /\ vaults' = [vaults EXCEPT ![v] = updated]
                /\ events' = events \o DepositEvent(v, amount)
                /\ triggers' = [triggers EXCEPT
                       ![v] = DepositTrigger(updated, IsInactive(bounty), triggers[v], now)]
                /\ last' = Response("deposit", v, v, TRUE, <<>>)
                /\ UNCHANGED <<tasks, CACHE, BOUNTY_ID_CACHE, POST_EXECUTION_ACTION_CACHE>>

\* ================================================================= cancel
CancelledBounty(bounty) == [bounty EXCEPT !.status = "Cancelled", !.balance = 0]

\* cancel_vault.rs:47 addresses the refund to bounty.destination, a field the Bounty
\* type does not declare (it declares owner and destinations): any address of the record.
RefundRecipients(bounty) ==
    {bounty.owner} \cup {bounty.destinations[i].address : i \in DOMAIN bounty.destinations}

RefundMessages(bounty, to) ==
    IF bounty.balance > 0 THEN <<BankSend(to, bounty.balance)>> ELSE <<>>

OrderMessages(trigger) ==
    IF trigger.kind = "Price"
    THEN <<WasmExecute("retract_order", "exchange", trigger.order_idx),
           WasmExecute("withdraw_order", "exchange", trigger.order_idx)>>
    ELSE <<>>

\* the cancel that forgets the escrow still held
CancelTasks_NoTask(bounty, v, current_time) == tasks

CancelTasks(bounty, v, current_time) ==
    IF bounty.escrowed_amount > 0
    THEN [tasks EXCEPT ![v] = GetExpectedExecutionCompletedDate(bounty, current_time)]
    ELSE tasks

CancelBountyHandler(v, sender) ==
    LET bounty == vaults[v] IN
        /\ Len(events) < MaxEvents
        /\ UNCHANGED <<paused, now, swapCalls, swapAnswered, followupCalls>>
        /\ IF ~AssertSenderIsAdminOrVaultOwner(bounty.owner, sender)
           THEN Reject("cancel", "Unauthorized")
           ELSE IF ~AssertVaultIsNotCancelled(bounty)
           THEN Reject("cancel", "vault is already cancelled")
           ELSE IF bounty.escrowed_amount > 0 /\ ~ExpectedDateDefined(bounty)
           THEN Reject("cancel", "panic: division by zero")
           ELSE \E to \in RefundRecipients(bounty) :
                /\ events' = Append(events, Event(v, "Cancelled", EventData(0, 0, "")))
                /\ tasks' = CancelTasks(bounty, v, now)
                /\ vaults' = [vaults EXCEPT ![v] = CancelledBounty(bounty)]
                /\ triggers' = [triggers EXCEPT ![v] = NoTrigger]
                /\ last' = Response("cancel", v, v, TRUE,
                                    RefundMessages(bounty, to) \o OrderMessages(triggers[v]))
                /\ UNCHANGED <<CACHE, BOUNTY_ID_CACHE, POST_EXECUTION_ACTION_CACHE>>

\* ================================================================= update
\* an empty list of destinations stands for the owner alone
PushedDestinations(bounty, destinations) ==
    IF destinations = <<>> THEN <<Destination(bounty.owner, 100, FALSE)>> ELSE destinations

\* Uint128 * Decimal::from_ratio(numerator, denominator): the ratio is cut to its
\* eighteen decimal places, the product is cut to a whole number.  A ratio that does not
\* end within its decimal places is a little too small, so a product that would come out
\* whole comes out one less.
RECURSIVE WithoutTwosAndFives(_)
WithoutTwosAndFives(n) ==
    IF n % 2 = 0 THEN WithoutTwosAndFives(n \div 2)
    ELSE IF n % 5 = 0 THEN WithoutTwosAndFives(n \div 5)
    ELSE n

MulRatio(amount, numerator, denominator) ==
    LET rest == numerator % denominator
        ends == rest % WithoutTwosAndFives(denominator) = 0
        part == (amount * rest) \div denominator
    IN  amount * (numerator \div denominator)
            + (IF ends \/ (amount * rest) % denominator # 0 \/ amount = 0 THEN part ELSE part - 1)

\* the new swap amount set and the status decided again by it
ScaledBounty_Reassessed(bounty, swap_amount) ==
    [bounty EXCEPT
        !.minimum_receive_amount =
            IF @.some THEN Some(MulRatio(@.value, swap_amount, bounty.swap_amount)) ELSE @,
        !.swap_adjustment_strategy =
            IF @.some /\ @.value.kind = "WeightedScale"
            THEN Some([@.value EXCEPT !.base_receive_amount =
                                          MulRatio(@, swap_amount, bounty.swap_amount)])
            ELSE @,
        !.swap_amount = swap_amount,
        !.status = IF @ \in {"Active", "Inactive"}
                   THEN (IF bounty.balance >= swap_amount THEN "Active" ELSE "Inactive")
                   ELSE @]

\* a new swap amount scales the minimum receive amount and the base receive amount
ScaledBounty(bounty, swap_amount) ==
    [bounty EXCEPT
        !.minimum_receive_amount =
            IF @.some THEN Some(MulRatio(@.value, swap_amount, bounty.swap_amount)) ELSE @,
        !.swap_adjustment_strategy =
            IF @.some /\ @.value.kind = "WeightedScale"
            THEN Some([@.value EXCEPT !.base_receive_amount =
                                          MulRatio(@, swap_amount, bounty.swap_amount)])
            ELSE @,
        !.swap_amount = swap_amount]

\* the fields the request names are set, the others are left as they are
UpdatedBounty(bounty, destinations, minimum_receive_amount, time_interval, swap_adjustment_strategy, swap_amount) ==
    LET scaled == IF swap_amount.some THEN ScaledBounty(bounty, swap_amount.value) ELSE bounty
    IN  [scaled EXCEPT
            !.destinations = IF destinations.some
                             THEN PushedDestinations(bounty, destinations.value)
                             ELSE @,
            !.minimum_receive_amount = IF minimum_receive_amount.some
                                       THEN Some(minimum_receive_amount.value)
                                       ELSE @,
            !.time_interval = IF time_interval.some THEN time_interval.value ELSE @,
            !.swap_adjustment_strategy = IF swap_adjustment_strategy.some
                                         THEN swap_adjustment_strategy
                                         ELSE @]

\* the vault's trigger left as it was
UpdatedTrigger_Kept(bounty, trigger, time_interval, current_time) == trigger

\* the new target time counted from the block time, whenever the vault started
UpdatedTrigger_FromNow(bounty, trigger, time_interval, current_time) ==
    IF time_interval.some /\ trigger # NoTrigger
    THEN TimeTrigger(GetNextTargetTime(current_time, current_time, time_interval.value))
    ELSE trigger

\* a new interval replaces the vault's trigger, if it has one, by a Time trigger
UpdatedTrigger(bounty, trigger, time_interval, current_time) ==
    IF time_interval.some /\ trigger # NoTrigger
    THEN TimeTrigger(GetNextTargetTime(
             current_time,
             IF bounty.started_at = NoTime THEN current_time ELSE bounty.started_at,
             time_interval.value))
    ELSE trigger

\* a new swap amount named together with another field that it would scale
CombinesSwapAmountWith_Never(swap_amount, other) == FALSE

CombinesSwapAmountWith(swap_amount, other) == swap_amount.some /\ other.some

\* the scaling divides by the vault's swap amount
ScalingPanics(bounty, swap_amount) ==
    /\ swap_amount.some
    /\ bounty.swap_amount = 0
    /\ \/ bounty.minimum_receive_amount.some
       \/ bounty.swap_adjustment_strategy.some
            /\ bounty.swap_adjustment_strategy.value.kind = "WeightedScale"

\* a strategy is replaced only by one of its own kind, and only a weighted scale
StrategyCanBeUpdated(bounty, swap_adjustment_strategy) ==
    /\ swap_adjustment_strategy.value.kind = "WeightedScale"
    /\ bounty.swap_adjustment_strategy.some
    /\ bounty.swap_adjustment_strategy.value.kind = "WeightedScale"

UpdateBountyHandler(v, sender, destinations, minimum_receive_amount, time_interval, swap_adjustment_strategy, swap_amount) ==
    LET bounty == vaults[v]
        pushed == PushedDestinations(bounty, destinations.value)
    IN  /\ Len(events) < MaxEvents
        /\ UNCHANGED <<paused, now, swapCalls, swapAnswered, followupCalls>>
        /\ IF ~AssetSenderIsVaultOwner(bounty.owner, sender)
           THEN Reject("update", "Unauthorized")
           ELSE IF ~AssertVaultIsNotCancelled(bounty)
           THEN Reject("update", "vault is already cancelled")
           ELSE IF CombinesSwapAmountWith(swap_amount, minimum_receive_amount)
           THEN Reject("update",
                       "cannot update swap amount and minimum receive amount at the same time.")
           ELSE IF CombinesSwapAmountWith(swap_amount, swap_adjustment_strategy)
           THEN Reject("update",
                       "cannot update swap amount and swap adjustment strategy at the same time.")
           ELSE IF ScalingPanics(bounty, swap_amount)
           THEN Reject("update", "panic: division by zero")
           ELSE IF destinations.some /\ ~AssertDestinationsLimitIsNotBreached(pushed)
           THEN Reject("update", "no more than 10 destinations can be provided")
           ELSE IF destinations.some /\ ~AssertNoDestinationAllocationsAreZero(pushed)
           THEN Reject("update", "all destination allocations must be greater than 0")
           ELSE IF destinations.some /\ ~AssertDestinationAllocationsAddUpToOne(pushed)
           THEN Reject("update", "destination allocations must add up to 1")
           ELSE IF time_interval.some /\ ~AssertTimeIntervalIsValid(time_interval.value)
           THEN Reject("update", "custom time interval must be at least 60 seconds")
           ELSE IF /\ swap_adjustment_strategy.some
                   /\ ~StrategyCanBeUpdated(bounty, swap_adjustment_strategy)
           THEN Reject("update", "cannot update swap adjustment strategy")
           ELSE IF /\ swap_adjustment_strategy.some
                   /\ ~AssertWeightedScaleMultiplierIsNoMoreThan10(
                            swap_adjustment_strategy.value.multiplier)
           THEN Reject("update", "multiplier must be no more than 10")
           ELSE /\ vaults' = [vaults EXCEPT
                                 ![v] = UpdatedBounty(bounty, destinations,
                                                      minimum_receive_amount, time_interval,
                                                      swap_adjustment_strategy, swap_amount)]
                /\ triggers' = [triggers EXCEPT
                                   ![v] = UpdatedTrigger(bounty, @, time_interval, now)]
                /\ events' = Append(events, Event(v, "Updated", EventData(0, 0, "")))
                /\ last' = Response("update", v, v, TRUE, <<>>)
                /\ UNCHANGED <<tasks, CACHE, BOUNTY_ID_CACHE, POST_EXECUTION_ACTION_CACHE>>

\* ======================================================== execute trigger
\* Spec 4.2: the trigger exists, the vault is not cancelled and a Time trigger is due;
\* then remove the trigger, record the continuation entry and issue the swap call.
\* (A Price trigger fires through the venue's callback, which is not part of this model.)
ExecuteTriggerHandler(v) ==
    LET vault == vaults[v]
        trigger == triggers[v]
    IN  /\ trigger.kind # "Price"
        /\ swapCalls[v] < MaxOutstanding
        /\ UNCHANGED <<paused, now, swapAnswered, followupCalls>>
        /\ IF trigger = NoTrigger
           THEN Reject("execute_trigger", "no trigger") /\ UNCHANGED swapCalls
           ELSE IF ~AssertVaultIsNotCancelled(vault)
           THEN Reject("execute_trigger", "vault is already cancelled")
                    /\ UNCHANGED swapCalls
           ELSE IF ~AssertTargetTimeIsInPast(now, trigger.target_time)
           THEN Reject("execute_trigger", "trigger execution time has not yet elapsed")
                    /\ UNCHANGED swapCalls
           ELSE /\ triggers' = [triggers EXCEPT ![v] = NoTrigger]
                /\ CACHE' = v
                /\ swapCalls' = [swapCalls EXCEPT ![v] = @ + 1]
                /\ last' = Response("execute_trigger", v, v, TRUE,
                                    <<WasmExecute("swap", "exchange", GetSwapAmount(vault))>>)
                /\ UNCHANGED <<vaults, tasks, BOUNTY_ID_CACHE, POST_EXECUTION_ACTION_CACHE,
                               events>>

\* ============================================== swap resume (after_fin_swap)
ExecutionFee(received) == (received * FeePercent) \div ONE_HUNDRED

\* the share rounded up to the next whole amount
DestinationAmount_RoundedUp(total_to_redistribute, destination) ==
    (total_to_redistribute * destination.allocation + 99) \div 100

DestinationAmount(total_to_redistribute, destination) ==
    (total_to_redistribute * destination.allocation) \div 100

\* One bank send per destination (to the owner for a delegation, whose call follows),
\* then the delegation calls, then the fee.
RECURSIVE DestinationMessages(_, _, _)
DestinationMessages(vault, total, i) ==
    IF i > Len(vault.destinations) THEN <<>>
    ELSE LET d == vault.destinations[i]
             amount == DestinationAmount(total, d)
         IN  <<BankSend(IF d.msg THEN vault.owner ELSE d.address, amount)>>
                \o DestinationMessages(vault, total, i + 1)

RECURSIVE DelegationMessages(_, _, _)
DelegationMessages(vault, total, i) ==
    IF i > Len(vault.destinations) THEN <<>>
    ELSE LET d == vault.destinations[i]
         IN  (IF d.msg
              THEN <<WasmExecute("z_delegate", d.address, DestinationAmount(total, d))>>
              ELSE <<>>) \o DelegationMessages(vault, total, i + 1)

SwapMessages(vault, received) ==
    LET fee == ExecutionFee(received)
        total == received - fee
    IN  DestinationMessages(vault, total, 1)
            \o <<BankSend(FeeCollector, fee)>>
            \o DelegationMessages(vault, total, 1)

\* a wrapping subtraction in place of the checked one
SwapAmountCovered_Unchecked(existing_vault) == TRUE

\* Uint128's -= panics when the balance does not cover the swap amount.
SwapAmountCovered(existing_vault) ==
    existing_vault.balance - GetSwapAmount(existing_vault) >= 0

\* the balance update without the low-funds transition
AfterSwapVault_KeepsStatus(existing_vault, block_time) ==
    [existing_vault EXCEPT !.balance = @ - GetSwapAmount(existing_vault),
                           !.started_at = IF @ = NoTime THEN block_time ELSE @]

AfterSwapVault(existing_vault, block_time) ==
    LET decremented == [existing_vault EXCEPT !.balance = @ - GetSwapAmount(existing_vault)]
        checked == IF LowFunds(decremented)
                   THEN [decremented EXCEPT !.status = "Inactive"]
                   ELSE decremented
    IN  IF checked.started_at = NoTime
        THEN [checked EXCEPT !.started_at = block_time]
        ELSE checked

\* the two checks in the other order
SkippedReason_FundsFirst(e) ==
    IF Contains(e, ERROR_SWAP_INSUFFICIENT_FUNDS) THEN "InsufficientFunds"
    ELSE IF Contains(e, ERROR_SWAP_SLIPPAGE) THEN "SlippageToleranceExceeded"
    ELSE "UnknownFailure"

SkippedReason(e) ==
    IF Contains(e, ERROR_SWAP_SLIPPAGE) THEN "SlippageToleranceExceeded"
    ELSE IF Contains(e, ERROR_SWAP_INSUFFICIENT_FUNDS) THEN "InsufficientFunds"
    ELSE "UnknownFailure"

\* The handler proper: `for` is the vault whose swap call this result answers, which the
\* handler never sees; it works on the vault the cache slot names.
AfterFinSwap(for, reply) ==
    LET id == CACHE
        vault == vaults[id]
        trigger == triggers[id]
    IN  IF id = 0
        THEN Reject("after_fin_swap", "cache not found")
        ELSE IF trigger = NoTrigger
        THEN Reject("after_fin_swap", "trigger not found")
        ELSE IF reply.ok
        THEN IF ~SwapAmountCovered(vault)
             THEN Reject("after_fin_swap", "panic: subtraction overflow")
             ELSE IF trigger.kind # "Time"
             THEN Reject("after_fin_swap", "panic: trigger type not supported")
             ELSE /\ vaults' = [vaults EXCEPT ![id] = AfterSwapVault(vault, now)]
                  /\ triggers' = [triggers EXCEPT ![id] = TimeTrigger(
                         GetNextTargetTime(now, trigger.target_time, vault.time_interval))]
                  /\ events' = Append(events, Event(id, "ExecutionCompleted",
                         EventData(reply.received, ExecutionFee(reply.received), "")))
                  /\ last' = Response("after_fin_swap", id, for, TRUE,
                                      SwapMessages(vault, reply.received))
                  /\ UNCHANGED <<tasks, CACHE, BOUNTY_ID_CACHE, POST_EXECUTION_ACTION_CACHE>>
        ELSE IF trigger.kind # "Time"
             THEN Reject("after_fin_swap", "panic: trigger type not supported")
             ELSE /\ events' = Append(events, Event(id, "ExecutionSkipped",
                         EventData(0, 0, SkippedReason(reply.error))))
                  /\ triggers' = [triggers EXCEPT ![id] = TimeTrigger(
                         GetNextTargetTime(now, trigger.target_time, vault.time_interval))]
                  /\ last' = Response("after_fin_swap", id, for, TRUE, <<>>)
                  /\ UNCHANGED <<vaults, tasks, CACHE, BOUNTY_ID_CACHE,
                                 POST_EXECUTION_ACTION_CACHE>>

SwapReplies ==
    [ok : {TRUE}, received : ReceivedAmounts, error : {{}}]
        \cup [ok : {FALSE}, received : {0}, error : SwapErrors]

\* The venue's result for a swap call issued for vault v arrives.
SwapResume(v, reply) ==
    /\ swapCalls[v] > 0
    /\ Len(events) < MaxEvents
    /\ swapCalls' = [swapCalls EXCEPT ![v] = @ - 1]
    /\ swapAnswered' = swapAnswered \cup {v}
    /\ UNCHANGED <<paused, now, followupCalls>>
    /\ AfterFinSwap(v, reply)

\* ======================================================== disburse escrow
\* helpers::fees::get_performance_fee: a share of the escrow, at most all of it, that
\* depends on the price the venue reports.
PerformanceFees(bounty) == 0..bounty.escrowed_amount

\* helpers::disbursement::get_disbursement_messages: one reply-always call per
\* destination with a non-zero share, each with its entry on the vault's pending queue.
DisbursementEntries(bounty, amount) ==
    LET all == [i \in 1..Len(bounty.destinations) |->
                   [destination |-> i,
                    to |-> bounty.destinations[i].address,
                    msg |-> bounty.destinations[i].msg,
                    funds |-> (amount * bounty.destinations[i].allocation) \div 100]]
    IN  SelectSeq(all, LAMBDA e : e.funds > 0)

EntryMessage(e) ==
    IF e.msg THEN WasmExecute("destination_msg", e.to, e.funds) ELSE BankSend(e.to, e.funds)

FeeMessages(fee) == IF fee > 0 THEN <<BankSend(FeeCollector, fee)>> ELSE <<>>

\* the early return on an empty escrow left out
EscrowIsZero_Unchecked(bounty) == FALSE

EscrowIsZero(bounty) == bounty.escrowed_amount = 0

\* the due-date check left out
EscrowNotDue_Ignored(due_date, block_time) == FALSE

\* a vault without a task taken as not yet due
EscrowNotDue_WithoutTask(due_date, block_time) == due_date = NoTime \/ block_time < due_date

EscrowNotDue(due_date, block_time) == due_date # NoTime /\ block_time < due_date

\* the update that leaves the escrow field as it was
DisbursedBounty_KeepsEscrow(bounty) == bounty

DisbursedBounty(bounty) == [bounty EXCEPT !.escrowed_amount = 0]

\* the task left in the store
DisbursedTasks_Kept(v) == tasks

\* delete_disburse_escrow_task
DisbursedTasks(v) == [tasks EXCEPT ![v] = NoTime]

DisburseAttributes(performance_fee, escrow_disbursed) ==
    <<Attribute("performance_fee", 0, performance_fee),
      Attribute("escrow_disbursed", 0, escrow_disbursed)>>

DisburseEscrowHandler(v, sender, performance_fee) ==
    LET bounty == vaults[v]
        amount_to_disburse == bounty.escrowed_amount - performance_fee
        entries == DisbursementEntries(bounty, amount_to_disburse)
    IN  /\ performance_fee \in PerformanceFees(bounty)
        /\ Len(events) < MaxEvents
        /\ UNCHANGED <<paused, now, swapCalls, swapAnswered>>
        /\ IF ~AssertSenderIsExecutor(sender)
           THEN Reject("disburse_escrow", "Unauthorized") /\ UNCHANGED followupCalls
           ELSE IF EscrowIsZero(bounty)
           THEN /\ last' = [Response("disburse_escrow", v, v, TRUE, <<>>)
                               EXCEPT !.attrs = DisburseAttributes(0, 0)]
                /\ UNCHANGED <<store, followupCalls>>
           ELSE IF EscrowNotDue(tasks[v], now)
           THEN Reject("disburse_escrow", "escrow is not available to be disbursed yet")
                    /\ UNCHANGED followupCalls
           ELSE /\ vaults' = [vaults EXCEPT ![v] = DisbursedBounty(bounty)]
                /\ events' = Append(events, Event(v, "EscrowDisbursed",
                       EventData(amount_to_disburse, performance_fee, "")))
                /\ tasks' = DisbursedTasks(v)
                /\ BOUNTY_ID_CACHE' = v
                /\ POST_EXECUTION_ACTION_CACHE' =
                       [POST_EXECUTION_ACTION_CACHE EXCEPT ![v] = @ \o entries]
                /\ followupCalls' = [followupCalls EXCEPT ![v] = @ + Len(entries)]
                /\ last' = [Response("disburse_escrow", v, v, TRUE,
                                [i \in 1..Len(entries) |-> EntryMessage(entries[i])]
                                    \o FeeMessages(performance_fee))
                               EXCEPT !.attrs = DisburseAttributes(performance_fee,
                                                                   amount_to_disburse)]
                /\ UNCHANGED <<triggers, CACHE>>

\* ============================= follow-up resume (handle_failed_automation)
\* `for` is the vault whose follow-up call this result answers; the handler works on
\* the vault the id slot names.
\* bounty.destinations.len() - cache.len(), the queue taken after the pop
DestinationNum(bounty, cache) == Len(bounty.destinations) - Len(cache)

\* a pop from the back of the queue
PopFront_FromBack(cache) == [entry |-> cache[Len(cache)], rest |-> SubSeq(cache, 1, Len(cache) - 1)]

\* VecDeque::pop_front: the entry taken and the queue that is saved back
PopFront(cache) == [entry |-> Head(cache), rest |-> Tail(cache)]

\* the fallback sent to the address the failed call was for
FallbackTransfer_ToDestination(bounty, entry) == <<BankSend(entry.to, entry.funds)>>

\* into_bank_msg(bounty.owner, entry.funds)
FallbackTransfer(bounty, entry) == <<BankSend(bounty.owner, entry.funds)>>

HandleFailedAutomation(for, reply_ok) ==
    LET bounty_id == BOUNTY_ID_CACHE
        bounty == vaults[bounty_id]
        cache == POST_EXECUTION_ACTION_CACHE[bounty_id]
        entry == PopFront(cache).entry
        popped == PopFront(cache).rest
        destination_num == DestinationNum(bounty, popped)
    IN  IF bounty_id = 0
        THEN Reject("handle_failed_automation", "cache not found")
        ELSE IF cache = <<>>
        THEN Reject("handle_failed_automation", "panic: unwrap on None")
        ELSE IF reply_ok
        THEN /\ POST_EXECUTION_ACTION_CACHE' =
                    [POST_EXECUTION_ACTION_CACHE EXCEPT ![bounty_id] = popped]
             /\ last' = [Response("handle_failed_automation", bounty_id, for, TRUE, <<>>)
                            EXCEPT !.attrs =
                                <<Attribute("destination_msg", destination_num, "succeeded")>>]
             /\ UNCHANGED <<vaults, triggers, tasks, CACHE, BOUNTY_ID_CACHE, events>>
        ELSE /\ Len(events) < MaxEvents
             /\ POST_EXECUTION_ACTION_CACHE' =
                    [POST_EXECUTION_ACTION_CACHE EXCEPT ![bounty_id] = popped]
             /\ events' = Append(events, Event(bounty_id, "PostExecutionActionFailed",
                    [EventData(entry.funds, 0, "") EXCEPT !.msg = EntryMessage(entry)]))
             /\ last' = [Response("handle_failed_automation", bounty_id, for, TRUE,
                                 FallbackTransfer(bounty, entry))
                            EXCEPT !.attrs =
                                <<Attribute("destination_msg", destination_num, "failed")>>]
             /\ UNCHANGED <<vaults, triggers, tasks, CACHE, BOUNTY_ID_CACHE>>

\* The result of a follow-up call issued for vault v arrives.
FollowUpResume(v, reply_ok) ==
    /\ followupCalls[v] > 0
    /\ followupCalls' = [followupCalls EXCEPT ![v] = @ - 1]
    /\ UNCHANGED <<paused, now, swapCalls, swapAnswered>>
    /\ HandleFailedAutomation(v, reply_ok)

\* ================================================================== time
Tick ==
    /\ now < MaxTime
    /\ now' = now + 1
    /\ UNCHANGED last
    /\ UNCHANGED <<store, swapCalls, swapAnswered, followupCalls, paused>>
    /\ Saved

\* ================================================================== Next
\* the owner with the vault's denom, a stranger, the owner with another denom
DepositRequests == {<<"owner", TRUE>>, <<"stranger", TRUE>>, <<"owner", FALSE>>}

Deposit ==
    /\ \E v \in VaultIds, amount \in DepositAmounts, request \in DepositRequests :
          DepositHandler(v, request[1],
                         <<Coin(IF request[2] THEN BalanceDenom ELSE OtherDenom, amount)>>)
    /\ Saved

Cancel ==
    /\ \E v \in VaultIds, sender \in Senders : CancelBountyHandler(v, sender)
    /\ Saved

Update ==
    /\ \E v \in VaultIds, sender \in {"owner", "stranger"}, swap_amount \in SwapAmounts :
           UpdateBountyHandler(v, sender, NoDestinations, NoAmount, NoInterval, NoStrategy,
                               Some(swap_amount))
    /\ Saved

ExecuteTrigger ==
    /\ \E v \in VaultIds : ExecuteTriggerHandler(v)
    /\ Saved

SwapResult ==
    /\ \E v \in VaultIds, reply \in SwapReplies : SwapResume(v, reply)
    /\ Saved

DisburseEscrow ==
    /\ \E v \in VaultIds, sender \in {"admin", "stranger"}, fee \in 0..2 :
           DisburseEscrowHandler(v, sender, fee)
    /\ Saved

FollowUpResult ==
    /\ \E v \in VaultIds, reply_ok \in BOOLEAN : FollowUpResume(v, reply_ok)
    /\ Saved

Next ==
    \/ Deposit
    \/ Cancel
    \/ Update
    \/ ExecuteTrigger
    \/ SwapResult
    \/ DisburseEscrow
    \/ FollowUpResult
    \/ Tick

Spec == Init /\ [][Next]_vars

\* ============================================ a swap result delivered again
\* The result of a swap call that was already answered reaches the reply entry point a
\* second time.  No call is outstanding: the handler has only its stored state to tell.
RedeliverSwapResume(v, reply) ==
    /\ v \in swapAnswered
    /\ swapCalls[v] = 0
    /\ Len(events) < MaxEvents
    /\ UNCHANGED <<paused, now, swapCalls, swapAnswered, followupCalls>>
    /\ AfterFinSwap(v, reply)

RedeliveredSwapResult ==
    /\ \E v \in VaultIds, reply \in SwapReplies : RedeliverSwapResume(v, reply)
    /\ Saved

NextRedelivery ==
    \/ Next
    \/ RedeliveredSwapResult

SpecRedelivery == Init /\ [][NextRedelivery]_vars

\* ================================================= two vaults in operation
\* Both vaults are live: each ran low earlier and holds its next trigger; the second
\* also holds escrow.
InitConcurrent ==
    /\ vaults = (1 :> Bounty("Inactive", 1, 0, OwnerOnly)
                 @@ 2 :> Bounty("Inactive", 1, 2, OwnerOnly))
    /\ triggers = [v \in VaultIds |-> TimeTrigger(0)]
    /\ tasks = [v \in VaultIds |-> NoTime]
    /\ CACHE = 0
    /\ BOUNTY_ID_CACHE = 0
    /\ POST_EXECUTION_ACTION_CACHE = [v \in VaultIds |-> <<>>]
    /\ events = <<>>
    /\ now = 0
    /\ swapCalls = [v \in VaultIds |-> 0]
    /\ swapAnswered = {}
    /\ followupCalls = [v \in VaultIds |-> 0]
    /\ paused = FALSE
    /\ bounty_indexes = IndexesOf(vaults)
    /\ last = Response("instantiate", 0, 0, TRUE, <<>>)

\* The requests that issue calls and the results that answer them, at one block time.
NextConcurrent ==
    \/ Deposit
    \/ ExecuteTrigger
    \/ SwapResult
    \/ DisburseEscrow
    \/ FollowUpResult

SpecConcurrent == InitConcurrent /\ [][NextConcurrent]_vars

\* ===================================================== deposits and the pause
\* ExecuteMsg::UpdateConfig { paused, .. }: the admin sets or clears config.paused.
UpdateConfigHandler(sender, new_paused) ==
    /\ UNCHANGED <<now, swapCalls, swapAnswered, followupCalls>>
    /\ IF sender # "admin"
       THEN Reject("update_config", "Unauthorized") /\ UNCHANGED paused
       ELSE /\ paused' = new_paused
            /\ last' = Response("update_config", 0, 0, TRUE, <<>>)
            /\ UNCHANGED store

UpdateConfig ==
    /\ \E sender \in {"admin", "stranger"}, new_paused \in BOOLEAN :
           UpdateConfigHandler(sender, new_paused)
    /\ Saved

\* info.funds of a deposit: no coin, one coin of either denom, two coins
DepositFunds ==
    {<<>>}
    \cup {<<Coin(d, a)>> : d \in {BalanceDenom, OtherDenom}, a \in DepositAmounts}
    \cup {<<Coin(BalanceDenom, a), Coin(OtherDenom, 1)>> : a \in DepositAmounts}

DepositOfFunds ==
    /\ \E v \in VaultIds, address \in {"owner", "stranger"}, funds \in DepositFunds :
           DepositHandler(v, address, funds)
    /\ Saved

NextDeposit ==
    \/ UpdateConfig
    \/ DepositOfFunds
    \/ Cancel

SpecDeposit == Init /\ [][NextDeposit]_vars

\* ============================================== the trigger of a vault
\* an interval below the minimum, the vault's own, a longer one
TimeIntervals == {0, 1, 2}

UpdateInterval ==
    /\ \E v \in VaultIds, time_interval \in TimeIntervals :
           UpdateBountyHandler(v, vaults[v].owner, NoDestinations, NoAmount,
                               Some(time_interval), NoStrategy, NoAmount)
    /\ Saved

\* The requests that write the trigger store, and the passing of time.
NextTriggers ==
    \/ Deposit
    \/ UpdateInterval
    \/ ExecuteTrigger
    \/ SwapResult
    \/ Tick

SpecTriggers == Init /\ [][NextTriggers]_vars

\* ================================================ updates of the destinations
\* one share that rounds to nothing for a small amount
Skewed == <<Destination("owner", 90, FALSE), Destination("contract", 10, TRUE)>>

\* eleven destinations whose allocations add up to one
Eleven == [i \in 1..(DestinationsLimit + 1) |->
              Destination("owner", IF i = 1 THEN 100 - 9 * DestinationsLimit ELSE 9, FALSE)]

\* The lists a request names: none, a valid one, a sum below and above one, a share of
\* zero with the sum right and with the sum short, and one entry too many.
DestinationUpdates ==
    { <<>>,
      Skewed,
      <<Destination("owner", 50, FALSE), Destination("contract", 40, TRUE)>>,
      <<Destination("owner", 60, FALSE), Destination("contract", 50, TRUE)>>,
      <<Destination("owner", 100, FALSE), Destination("contract", 0, TRUE)>>,
      <<Destination("owner", 50, FALSE), Destination("contract", 0, TRUE)>>,
      Eleven }

UpdateDestinations ==
    /\ \E v \in VaultIds, sender \in {"owner", "stranger"}, destinations \in DestinationUpdates :
           UpdateBountyHandler(v, sender, Some(destinations), NoAmount, NoInterval, NoStrategy,
                               NoAmount)
    /\ Saved

\* The owner rearranges the destinations around a disbursement and its follow-ups.
NextDestinations ==
    \/ UpdateDestinations
    \/ DisburseEscrow
    \/ FollowUpResult

SpecDestinations == Init /\ [][NextDestinations]_vars

\* ================================================ the expected completion date
\* Vault 1 as a settlement and an update can leave it: escrow withheld, any balance up
\* to what was deposited, any swap amount and interval, with or without a baseline that
\* has swapped part of the deposits.
CompletionVaults ==
    { [Bounty(status, balance, 2, OwnerOnly) EXCEPT
          !.deposited_amount = deposited,
          !.swap_amount = swap_amount,
          !.time_interval = time_interval,
          !.performance_assessment_strategy = baseline] :
        status \in {"Active", "Inactive"},
        balance \in {0, 1, 3},
        deposited \in {3, 4},
        swap_amount \in {0, 1, 2},
        time_interval \in {1, 2},
        baseline \in {NoBaseline, CompareToStandardDca(0), CompareToStandardDca(2),
                      CompareToStandardDca(3)} }

InitCompletion ==
    /\ \E bounty \in CompletionVaults :
          vaults = (1 :> bounty @@ 2 :> Bounty("Inactive", 1, 0, OwnerOnly))
    /\ triggers = [v \in VaultIds |-> TimeTrigger(0)]
    /\ tasks = [v \in VaultIds |-> NoTime]
    /\ CACHE = 0
    /\ BOUNTY_ID_CACHE = 0
    /\ POST_EXECUTION_ACTION_CACHE = [v \in VaultIds |-> <<>>]
    /\ events = <<>>
    /\ now = 0
    /\ swapCalls = [v \in VaultIds |-> 0]
    /\ swapAnswered = {}
    /\ followupCalls = [v \in VaultIds |-> 0]
    /\ paused = FALSE
    /\ bounty_indexes = IndexesOf(vaults)
    /\ last = Response("instantiate", 0, 0, TRUE, <<>>)

\* The date is computed when a vault with escrow is cancelled, at any block time.
NextCompletion ==
    \/ Cancel
    \/ Tick

SpecCompletion == InitCompletion /\ [][NextCompletion]_vars

\* ============================================ updates of the swap's amounts
\* A vault created with a weighted scale and one created without a strategy, both live.
InitUpdate ==
    /\ vaults = (1 :> [Bounty("Active", 3, 0, OwnerOnly) EXCEPT
                          !.swap_adjustment_strategy = Some(WeightedScale(3, 2))]
                 @@ 2 :> Bounty("Inactive", 1, 0, OwnerOnly))
    /\ triggers = [v \in VaultIds |-> TimeTrigger(0)]
    /\ tasks = [v \in VaultIds |-> NoTime]
    /\ CACHE = 0
    /\ BOUNTY_ID_CACHE = 0
    /\ POST_EXECUTION_ACTION_CACHE = [v \in VaultIds |-> <<>>]
    /\ events = <<>>
    /\ now = 0
    /\ swapCalls = [v \in VaultIds |-> 0]
    /\ swapAnswered = {}
    /\ followupCalls = [v \in VaultIds |-> 0]
    /\ paused = FALSE
    /\ bounty_indexes = IndexesOf(vaults)
    /\ last = Response("instantiate", 0, 0, TRUE, <<>>)

\* none, a smaller and a larger swap amount; none or a minimum receive amount; none, a
\* weighted scale, another kind of strategy
SwapAmountUpdates == {NoAmount, Some(1), Some(3)}
MinimumReceiveAmountUpdates == {NoAmount, Some(3)}
StrategyUpdates == {NoStrategy, Some(WeightedScale(2, 1)), Some(RiskWeightedAverage)}

UpdateAmounts ==
    /\ \E v \in VaultIds, sender \in {"owner", "stranger"}, swap_amount \in SwapAmountUpdates,
          minimum_receive_amount \in MinimumReceiveAmountUpdates,
          swap_adjustment_strategy \in StrategyUpdates :
           UpdateBountyHandler(v, sender, NoDestinations, minimum_receive_amount, NoInterval,
                               swap_adjustment_strategy, swap_amount)
    /\ Saved

NextUpdate ==
    \/ UpdateAmounts
    \/ Cancel

SpecUpdate == InitUpdate /\ [][NextUpdate]_vars

\* ====================================================== the reply entry point
\* the ids a reply can carry: the five the contract declares, the one it no longer
\* declares and one it never did
ReplyIds == 1..7

\* every id answered like the ignore-result id
IsUnhandled_Never(id) == FALSE

\* the arm `id => Err(..)`: an id none of the arms before it names
IsUnhandled(id) ==
    id \notin {AFTER_LIMIT_ORDER_PLACED_REPLY_ID, AFTER_FAILED_AUTOMATION_REPLY_ID,
               AFTER_DELEGATION_REPLY_ID, FAIL_SILENTLY_REPLY_ID}

\* contract::reply.  (The handlers of a placed limit order and of a delegation's result
\* are not part of this model.)
Reply(id, v, reply_ok) ==
    /\ id \notin {AFTER_LIMIT_ORDER_PLACED_REPLY_ID, AFTER_DELEGATION_REPLY_ID}
    /\ IF id = AFTER_FAILED_AUTOMATION_REPLY_ID
       THEN FollowUpResume(v, reply_ok)
       ELSE /\ UNCHANGED <<paused, now, swapCalls, swapAnswered, followupCalls>>
            /\ IF IsUnhandled(id)
               THEN Reject("reply", "unhandled DCA contract reply id")
               ELSE /\ last' = Response("reply", 0, 0, TRUE, <<>>)
                    /\ UNCHANGED store

ReplyResult ==
    /\ \E id \in ReplyIds, v \in VaultIds, reply_ok \in BOOLEAN : Reply(id, v, reply_ok)
    /\ Saved

\* Deposits, disbursements and whatever reaches the reply entry point.
NextReply ==
    \/ Deposit
    \/ DisburseEscrow
    \/ ReplyResult

SpecReply == Init /\ [][NextReply]_vars

\* =============================================== the shares of a swap's proceeds
\* The owner sets the destinations, the vault is executed and funded again, and the
\* venue's result arrives.
NextShares ==
    \/ UpdateDestinations
    \/ Deposit
    \/ ExecuteTrigger
    \/ SwapResult

SpecShares == Init /\ [][NextShares]_vars

\* ===================================================== the lists of vaults
\* the page size of a query that names none
default_page_limit == 30

\* None of an Option<BountyStatus>, Option<Uint128>, Option<u16> or Option<bool> of a
\* query
None == [some |-> FALSE, value |-> 0]

\* the keys of a range in ascending and in descending order
RECURSIVE Ascending(_)
Ascending(keys) ==
    IF keys = {}
    THEN <<>>
    ELSE LET least == CHOOSE k \in keys : \A j \in keys : k <= j
         IN  <<least>> \o Ascending(keys \ {least})

Descending(keys) == [i \in 1..Cardinality(keys) |-> Ascending(keys)[Cardinality(keys) + 1 - i]]

\* Iterator::take
Take(page, limit) == SubSeq(page, 1, IF Len(page) < limit THEN Len(page) ELSE limit)

\* bounty_from: the stored data with the vault's trigger read from the trigger store
BountyFrom(id, bounty_data) == [id |-> id, bounty |-> bounty_data, trigger |-> triggers[id]]

\* get_bounties_by_address: the partition of the owner (and status) in the index, from
\* the exclusive lower bound on, ascending, cut at the limit.
GetBountiesByAddress(address, status, start_after, limit) ==
    LET partition ==
            IF status.some
            THEN {k[3] : k \in {j \in bounty_indexes.owner_status :
                                   j[1] = address /\ j[2] = StatusCode(status.value)}}
            ELSE {k[2] : k \in {j \in bounty_indexes.owner : j[1] = address}}
        range == {id \in partition : start_after.some => id > start_after.value}
        page == Take(Ascending(range), IF limit.some THEN limit.value ELSE default_page_limit)
    IN  [i \in 1..Len(page) |-> BountyFrom(page[i], vaults[page[i]])]

\* get_bounties: the primary keys above the exclusive start_after (the lower bound of
\* the range in either order; the upper bound is None), in the order `reverse` names,
\* cut at the limit.
GetBounties(start_after, limit, reverse) ==
    LET range == {id \in DOMAIN vaults : start_after.some => id > start_after.value}
        ordered == IF reverse.some /\ reverse.value THEN Descending(range) ELSE Ascending(range)
        page == Take(ordered, IF limit.some THEN limit.value ELSE default_page_limit)
    IN  [i \in 1..Len(page) |-> BountyFrom(page[i], vaults[page[i]])]

\* Two vaults of two owners: one ran low and holds its next trigger, one is in operation.
InitListing ==
    /\ vaults = (1 :> Bounty("Inactive", 1, 0, OwnerOnly)
                 @@ 2 :> [Bounty("Active", 3, 0, OwnerOnly) EXCEPT !.owner = "stranger"])
    /\ triggers = [v \in VaultIds |-> TimeTrigger(0)]
    /\ tasks = [v \in VaultIds |-> NoTime]
    /\ CACHE = 0
    /\ BOUNTY_ID_CACHE = 0
    /\ POST_EXECUTION_ACTION_CACHE = [v \in VaultIds |-> <<>>]
    /\ events = <<>>
    /\ now = 0
    /\ swapCalls = [v \in VaultIds |-> 0]
    /\ swapAnswered = {}
    /\ followupCalls = [v \in VaultIds |-> 0]
    /\ paused = FALSE
    /\ bounty_indexes = IndexesOf(vaults)
    /\ last = Response("instantiate", 0, 0, TRUE, <<>>)

\* The operations that change a vault's status: deposit, cancel and the swap's resume.
NextListing ==
    \/ Deposit
    \/ Cancel
    \/ ExecuteTrigger
    \/ SwapResult

SpecListing == InitListing /\ [][NextListing]_vars

\* ===================================== deposits and intervals of a running vault
\* Vault 1 before its first execution (Scheduled, not started, a Time or a Price trigger
\* saved) or after it (Active, started at 0, with the next Time trigger or, while an
\* execution is in progress, with none); vault 2 ran dry and lost its trigger.
InitRescheduling ==
    /\ \E p \in { [status |-> "Scheduled", trigger |-> TimeTrigger(1)],
                  [status |-> "Scheduled", trigger |-> PriceTrigger(1)],
                  [status |-> "Active", trigger |-> TimeTrigger(0)],
                  [status |-> "Active", trigger |-> NoTrigger] } :
          /\ vaults = (1 :> [Bounty(p.status, 1, 0, OwnerOnly) EXCEPT
                                !.started_at = IF p.status = "Active" THEN 0 ELSE NoTime]
                       @@ 2 :> Bounty("Inactive", 1, 0, OwnerOnly))
          /\ triggers = (1 :> p.trigger @@ 2 :> NoTrigger)
    /\ tasks = [v \in VaultIds |-> NoTime]
    /\ CACHE = 0
    /\ BOUNTY_ID_CACHE = 0
    /\ POST_EXECUTION_ACTION_CACHE = [v \in VaultIds |-> <<>>]
    /\ events = <<>>
    /\ now = 0
    /\ swapCalls = [v \in VaultIds |-> 0]
    /\ swapAnswered = {}
    /\ followupCalls = [v \in VaultIds |-> 0]
    /\ paused = FALSE
    /\ bounty_indexes = IndexesOf(vaults)
    /\ last = Response("instantiate", 0, 0, TRUE, <<>>)

\* Updates of the interval, deposits (which save a trigger for the vault that ran dry)
\* and the passing of time.
NextRescheduling ==
    \/ UpdateInterval
    \/ Deposit
    \/ Tick

SpecRescheduling == InitRescheduling /\ [][NextRescheduling]_vars

\* ============================================ a new swap amount for a vault
\* a swap amount below and one above the balances the vaults hold
UpdateSwapAmount ==
    /\ \E v \in VaultIds, swap_amount \in {1, 4} :
          UpdateBountyHandler(v, vaults[v].owner, NoDestinations, NoAmount, NoInterval,
                              NoStrategy, Some(swap_amount))
    /\ Saved

\* The owner resizes the swaps of a vault in operation and of one that ran low, between
\* deposits and cancels.
NextResizing ==
    \/ UpdateSwapAmount
    \/ UpdateInterval
    \/ Deposit
    \/ Cancel

SpecResizing == InitUpdate /\ [][NextResizing]_vars

\* ============================================ escrow disbursed without a task
\* Vault 1 holds escrow and no task, in each status a stored vault that is not cancelled
\* can have (the handler's tests store such vaults directly); vault 2 holds none.
InitDisbursing ==
    /\ \E p \in { [status |-> "Scheduled", balance |-> 3, trigger |-> TimeTrigger(1)],
                  [status |-> "Active", balance |-> 3, trigger |-> TimeTrigger(0)],
                  [status |-> "Active", balance |-> 3, trigger |-> NoTrigger],
                  [status |-> "Inactive", balance |-> 1, trigger |-> TimeTrigger(0)] } :
          /\ vaults = (1 :> Bounty(p.status, p.balance, 2, OwnerAndContract)
                       @@ 2 :> Bounty("Inactive", 1, 0, OwnerOnly))
          /\ triggers = (1 :> p.trigger @@ 2 :> TimeTrigger(0))
    /\ tasks = [v \in VaultIds |-> NoTime]
    /\ CACHE = 0
    /\ BOUNTY_ID_CACHE = 0
    /\ POST_EXECUTION_ACTION_CACHE = [v \in VaultIds |-> <<>>]
    /\ events = <<>>
    /\ now = 0
    /\ swapCalls = [v \in VaultIds |-> 0]
    /\ swapAnswered = {}
    /\ followupCalls = [v \in VaultIds |-> 0]
    /\ paused = FALSE
    /\ bounty_indexes = IndexesOf(vaults)
    /\ last = Response("instantiate", 0, 0, TRUE, <<>>)

\* Disbursements and their follow-ups, between deposits, at any block time.
NextDisbursing ==
    \/ DisburseEscrow
    \/ FollowUpResult
    \/ Deposit
    \/ Tick

SpecDisbursing == InitDisbursing /\ [][NextDisbursing]_vars

\* ============================================================== properties
\* A step in which handler `op` ran (the clock step leaves the response alone).
Ran(op) == last'.op = op /\ now' = now

\* A step that appended one event of the given kind for vault v.
Appended(kind, v) ==
    /\ Len(events') = Len(events) + 1
    /\ SubSeq(events', 1, Len(events)) = events
    /\ events'[Len(events')].kind = kind
    /\ events'[Len(events')].resource_id = v

LastEventIs(kind, v) ==
    /\ events # <<>>
    /\ events[Len(events)].kind = kind
    /\ events[Len(events)].resource_id = v

BankSends(msgs) == SelectSeq(msgs, LAMBDA m : m.kind = "bank_send")

RECURSIVE TotalSent(_)
TotalSent(msgs) == IF msgs = <<>> THEN 0 ELSE Head(msgs).amount + TotalSent(Tail(msgs))

\* C1: every swap resume that handles a successful fill leaves the vault's balance at
\* its balance before minus the configured swap amount, and leaves the vault Inactive
\* when the new balance is below the swap amount.
C1_FillDecrementsBySwapAmount ==
    [][\A v \in VaultIds :
          (Ran("after_fin_swap") /\ last'.ok /\ last'.vault = v
               /\ Appended("ExecutionCompleted", v))
          => /\ vaults'[v].balance = vaults[v].balance - vaults[v].swap_amount
             /\ (vaults'[v].balance < vaults'[v].swap_amount
                    => vaults'[v].status = "Inactive")]_vars

\* A fill was just handled for an Active vault and left it Inactive, short of one swap.
C1_FillLeftVaultInactive ==
    /\ last.op = "after_fin_swap"
    /\ last.ok
    /\ last.vault \in VaultIds
    /\ LastEventIs("ExecutionCompleted", last.vault)
    /\ vaults[last.vault].status = "Inactive"
    /\ vaults[last.vault].balance < vaults[last.vault].swap_amount
    /\ vaults[last.vault].deposited_amount > vaults[last.vault].balance

\* C2: a swap result delivered again, when the swap it answers was already resumed and
\* no swap call is outstanding, does not decrement a vault balance a second time.
C2_SecondResumeDoesNotDecrement ==
    [][(Ran("after_fin_swap") /\ \A v \in VaultIds : swapCalls[v] = 0)
          => \A v \in VaultIds : vaults'[v].balance = vaults[v].balance]_vars

\* C3: while a swap issued for a vault is outstanding the vault has no trigger record.
C3_NoTriggerWhileSwapOutstanding ==
    \A v \in VaultIds : swapCalls[v] > 0 => triggers[v] = NoTrigger

\* C4: the result of a swap issued for a vault that was cancelled in the meantime is
\* handled without error, for a fill as for a failure.
C4_ResumeAfterCancelCompletes ==
    [][\A v \in VaultIds :
          (swapCalls'[v] < swapCalls[v] /\ vaults[v].status = "Cancelled")
          => last'.ok]_vars

\* C5: a resume, of a swap result or of a follow-up result, issued for vault v leaves
\* every other vault's record, trigger and pending queue as they were.
C5_ResumeKeepsToItsVault ==
    [][\A v \in VaultIds :
          (swapCalls'[v] < swapCalls[v] \/ followupCalls'[v] < followupCalls[v])
          => \A w \in VaultIds \ {v} :
                /\ vaults'[w] = vaults[w]
                /\ triggers'[w] = triggers[w]
                /\ POST_EXECUTION_ACTION_CACHE'[w] = POST_EXECUTION_ACTION_CACHE[w]]_vars

\* C6: a vault that is Cancelled, or becomes Cancelled in a step, is Cancelled after the
\* step with balance 0 and no trigger record, whichever request or resume the step is.
C6_CancelledIsFinal ==
    [][\A v \in VaultIds :
          (vaults[v].status = "Cancelled" \/ vaults'[v].status = "Cancelled")
          => /\ vaults'[v].status = "Cancelled"
             /\ vaults'[v].balance = 0
             /\ triggers'[v] = NoTrigger]_vars

\* The result of a swap issued before the cancel was delivered to the cancelled vault.
C6_ResumeReachedCancelledVault ==
    /\ last.op = "after_fin_swap"
    /\ CACHE \in VaultIds
    /\ CACHE \in swapAnswered
    /\ vaults[CACHE].status = "Cancelled"
    /\ LastEventIs("Cancelled", CACHE)

\* C7: in every reachable state every vault's balance is at least 0.
C7_BalanceNeverNegative ==
    \A v \in VaultIds : vaults[v].balance >= 0

\* A fill arrived for a vault whose swap amount, raised by an update, exceeds its
\* balance: the resume failed on the subtraction and the balance stands.
C7_ResumeStoppedAtUnderflow ==
    /\ last.op = "after_fin_swap"
    /\ ~last.ok
    /\ last.error = "panic: subtraction overflow"
    /\ CACHE \in VaultIds
    /\ vaults[CACHE].balance < vaults[CACHE].swap_amount
    /\ LastEventIs("FundsDeposited", CACHE)
    /\ \E i \in DOMAIN events : events[i].kind = "Updated"

\* C8: a successful cancel leaves the vault Cancelled with balance 0, sends exactly the
\* balance it held to the vault's owner (nothing when it held none), deletes the
\* vault's trigger and appends one cancelled event.
C8_CancelRefundsOwner ==
    [][\A v \in VaultIds :
          (Ran("cancel") /\ last'.ok /\ last'.vault = v)
          => /\ vaults'[v].status = "Cancelled"
             /\ vaults'[v].balance = 0
             /\ BankSends(last'.msgs) =
                    IF vaults[v].balance > 0
                    THEN <<BankSend(vaults[v].owner, vaults[v].balance)>>
                    ELSE <<>>
             /\ triggers'[v] = NoTrigger
             /\ Appended("Cancelled", v)]_vars

\* C9: a successful cancel of a vault that holds escrow records the vault's one
\* disburse-escrow task, due at the vault's expected execution completed date taken at
\* the cancel's block time; a cancel of a vault without escrow records none; no other
\* vault's task changes.
C9_CancelSchedulesDisbursement ==
    [][\A v \in VaultIds :
          (Ran("cancel") /\ last'.ok /\ last'.vault = v)
          => /\ vaults[v].escrowed_amount > 0
                    => tasks'[v] = GetExpectedExecutionCompletedDate(vaults[v], now)
             /\ vaults[v].escrowed_amount = 0 => tasks'[v] = NoTime
             /\ \A w \in VaultIds \ {v} : tasks'[w] = tasks[w]]_vars

\* A vault holding escrow and funds for one more swap was just cancelled: its task is due
\* one interval after the cancel.
C9_TaskRecordedAtCancel ==
    /\ last.op = "cancel"
    /\ last.ok
    /\ vaults[last.vault].escrowed_amount > 0
    /\ tasks[last.vault] = now + vaults[last.vault].time_interval
    /\ LastEventIs("Cancelled", last.vault)

\* C10: while a vault's task is not yet due and escrow is held, no disburse-escrow
\* request for it succeeds and no step changes its escrow or task or appends a disbursed
\* event for it; a request that fails changes nothing stored, and an executor's request
\* fails only over a task not yet due; the request that succeeds with escrow held empties
\* the escrow, deletes the task, appends the disbursed event and pays out no more than
\* the escrow held; a request that finds the escrow empty pays nothing and changes
\* nothing stored.
C10_DisburseWhenDueAndOnce ==
    [][/\ \A v \in VaultIds :
            LET due == tasks[v]
                held == vaults[v].escrowed_amount
                paid == last'.msgs
                disbursed == Ran("disburse_escrow") /\ last'.ok /\ last'.vault = v
            IN  /\ (due # NoTime /\ held > 0 /\ now < due)
                       => /\ ~disbursed
                          /\ vaults'[v].escrowed_amount = held
                          /\ tasks'[v] = due
                          /\ ~Appended("EscrowDisbursed", v)
                /\ (disbursed /\ held > 0)
                       => /\ vaults'[v].escrowed_amount = 0
                          /\ tasks'[v] = NoTime
                          /\ Appended("EscrowDisbursed", v)
                          /\ paid # <<>>
                          /\ \A i \in DOMAIN paid : paid[i].amount \in 1..held
                /\ (disbursed /\ held = 0) => (paid = <<>> /\ UNCHANGED store)
       /\ (Ran("disburse_escrow") /\ ~last'.ok)
            => /\ UNCHANGED store
               /\ last'.error # "Unauthorized"
                    => \E v \in VaultIds : /\ tasks[v] # NoTime
                                           /\ vaults[v].escrowed_amount > 0
                                           /\ now < tasks[v]]_vars

\* A cancelled vault's escrow was disbursed at a block time later than its cancel, and a
\* further request has since found the escrow empty.
C10_DisbursedAfterWaiting ==
    /\ last.op = "disburse_escrow"
    /\ last.ok
    /\ last.msgs = <<>>
    /\ vaults[last.vault].status = "Cancelled"
    /\ vaults[last.vault].escrowed_amount = 0
    /\ \E i, j \in DOMAIN events :
          /\ i < j
          /\ events[i].kind = "Cancelled"
          /\ events[j].kind = "EscrowDisbursed"
          /\ events[i].resource_id = last.vault
          /\ events[j].resource_id = last.vault
          /\ events[i].timestamp < events[j].timestamp

\* C11: an executor's disburse-escrow request on a vault whose escrowed amount is zero
\* succeeds, reports zero fee and zero disbursed, issues no messages, appends no event
\* and changes nothing stored.
C11_DisburseOfEmptyEscrowIsNoOp ==
    [][\A v \in VaultIds, sender \in Executors :
          (vaults[v].escrowed_amount = 0 /\ DisburseEscrowHandler(v, sender, 0))
          => /\ last'.op = "disburse_escrow"
             /\ last'.ok
             /\ last'.vault = v
             /\ last'.msgs = <<>>
             /\ last'.attrs = DisburseAttributes(0, 0)
             /\ events' = events
             /\ UNCHANGED <<store, followupCalls, swapCalls>>]_vars

\* The second of two disbursements in a row: the first emptied the escrow and its
\* follow-up calls are all still unanswered, the second found nothing to pay.
C11_SecondDisburseInARow ==
    /\ last.op = "disburse_escrow"
    /\ last.ok
    /\ last.msgs = <<>>
    /\ last.attrs = DisburseAttributes(0, 0)
    /\ LastEventIs("EscrowDisbursed", last.vault)
    /\ followupCalls[last.vault] > 0
    /\ followupCalls[last.vault] = Len(POST_EXECUTION_ACTION_CACHE[last.vault])

\* C12: a successful disburse-escrow on a vault with escrow E > 0 sets the vault's
\* escrowed amount to zero, deletes the vault's disburse-escrow task and appends exactly
\* one escrow-disbursed event whose performance fee is at most E and whose amount
\* disbursed is E minus the performance fee.
C12_DisburseEmptiesEscrowAndRecordsIt ==
    [][\A v \in VaultIds :
          LET E == vaults[v].escrowed_amount
              recorded == events'[Len(events')].data
          IN  (Ran("disburse_escrow") /\ last'.ok /\ last'.vault = v /\ E > 0)
              => /\ vaults'[v].escrowed_amount = 0
                 /\ tasks'[v] = NoTime
                 /\ Appended("EscrowDisbursed", v)
                 /\ recorded.fee \in 0..E
                 /\ recorded.amount = E - recorded.fee]_vars

\* A cancelled vault's task came due and its escrow of 2 was disbursed, half as fee.
C12_DisbursedWithFee ==
    /\ last.op = "disburse_escrow"
    /\ last.ok
    /\ last.msgs # <<>>
    /\ LastEventIs("EscrowDisbursed", last.vault)
    /\ events[Len(events)].data = EventData(1, 1, "")
    /\ vaults[last.vault].status = "Cancelled"
    /\ vaults[last.vault].escrowed_amount = 0
    /\ tasks[last.vault] = NoTime
    /\ \E i \in DOMAIN events :
          events[i].kind = "Cancelled" /\ events[i].timestamp < now

\* The venue's answer to a swap call: a failure with the given error text.
SwapFailure(e) == [ok |-> FALSE, received |-> 0, error |-> e]

\* C13: a swap resume that reports a swap failure does not fail the request: it appends
\* exactly one execution-skipped event for the vault, leaves the vault's balance, status
\* and running totals unchanged and leaves the vault with a Time trigger.
C13_FailedSwapIsSkippedNotFailed ==
    [][\A v \in VaultIds, e \in SwapErrors :
          SwapResume(v, SwapFailure(e))
          => /\ last'.ok
             /\ Appended("ExecutionSkipped", v)
             /\ vaults'[v] = vaults[v]
             /\ triggers'[v].kind = "Time"]_vars

\* C14: after every swap resume, skipped or completed, the vault's new Time trigger has
\* the target time of the trigger the vault held before plus one interval, whatever the
\* block time at which the resume is handled.
C14_NextTargetIsPreviousPlusInterval ==
    [][\A v \in VaultIds, reply \in SwapReplies :
          SwapResume(v, reply)
          => /\ triggers[v].kind = "Time"
             /\ triggers'[v] =
                    TimeTrigger(triggers[v].target_time + vaults[v].time_interval)]_vars

\* C15: the reason recorded in the execution-skipped event follows from the venue's error
\* text: SlippageToleranceExceeded when the text contains the slippage code, whatever
\* else it contains; otherwise InsufficientFunds when it contains the insufficient-funds
\* code; otherwise UnknownFailure.
C15_SkippedReasonFollowsErrorText ==
    [][\A v \in VaultIds, e \in SwapErrors :
          (SwapResume(v, SwapFailure(e)) /\ last'.ok)
          => /\ Len(events') = Len(events) + 1
             /\ events'[Len(events')].kind = "ExecutionSkipped"
             /\ events'[Len(events')].data.reason =
                    IF ERROR_SWAP_SLIPPAGE \in e THEN "SlippageToleranceExceeded"
                    ELSE IF ERROR_SWAP_INSUFFICIENT_FUNDS \in e THEN "InsufficientFunds"
                    ELSE "UnknownFailure"]_vars

\* A failed swap was recorded as skipped over slippage for a vault that a deposit had
\* given its trigger back.
C15_SkippedOverSlippage ==
    /\ last.op = "after_fin_swap"
    /\ last.ok
    /\ last.msgs = <<>>
    /\ LastEventIs("ExecutionSkipped", last.vault)
    /\ events[Len(events)].data.reason = "SlippageToleranceExceeded"
    /\ \E i \in DOMAIN events : events[i].kind = "FundsDeposited"

\* C16: a follow-up resume that reports failure appends one post-execution-action-failed
\* event carrying the head queue entry's message and funds, issues exactly one transfer,
\* of exactly those funds, to the vault's owner, and leaves the vault's pending queue one
\* entry shorter.
C16_FailedFollowUpFallsBackToOwner ==
    [][\A for \in VaultIds :
          FollowUpResume(for, FALSE)
          => /\ last'.ok
             /\ last'.vault \in VaultIds
             /\ LET v == last'.vault
                    queue == POST_EXECUTION_ACTION_CACHE[v]
                    recorded == events'[Len(events')].data
                IN  /\ queue # <<>>
                    /\ Appended("PostExecutionActionFailed", v)
                    /\ recorded.msg = EntryMessage(queue[1])
                    /\ recorded.amount = queue[1].funds
                    /\ last'.msgs = <<BankSend(vaults[v].owner, queue[1].funds)>>
                    /\ Len(POST_EXECUTION_ACTION_CACHE'[v]) = Len(queue) - 1]_vars

\* The call to the second destination, a contract, failed: its funds went to the owner
\* and the queue is empty.
C16_ContractCallFellBack ==
    /\ last.op = "handle_failed_automation"
    /\ last.ok
    /\ last.msgs = <<BankSend("owner", 1)>>
    /\ LastEventIs("PostExecutionActionFailed", last.vault)
    /\ events[Len(events)].data.msg = WasmExecute("destination_msg", "contract", 1)
    /\ POST_EXECUTION_ACTION_CACHE[last.vault] = <<>>

\* C17: every follow-up resume, whether it reports success or failure, removes exactly
\* the head entry of the vault's pending queue and leaves the remaining entries in their
\* order; on success it issues no messages and appends no event.
C17_FollowUpPopsHeadOnly ==
    [][\A for \in VaultIds, reply_ok \in BOOLEAN :
          FollowUpResume(for, reply_ok)
          => /\ last'.ok
             /\ last'.vault \in VaultIds
             /\ LET v == last'.vault
                    queue == POST_EXECUTION_ACTION_CACHE[v]
                IN  /\ queue # <<>>
                    /\ POST_EXECUTION_ACTION_CACHE'[v] = SubSeq(queue, 2, Len(queue))
                    /\ \A w \in VaultIds \ {v} :
                          POST_EXECUTION_ACTION_CACHE'[w] = POST_EXECUTION_ACTION_CACHE[w]
             /\ reply_ok => (last'.msgs = <<>> /\ events' = events)]_vars

\* The first of two follow-up calls succeeded: the entry of the second destination is
\* what the queue still holds.
C17_HeadPoppedSecondRemains ==
    /\ last.op = "handle_failed_automation"
    /\ last.ok
    /\ last.msgs = <<>>
    /\ Len(POST_EXECUTION_ACTION_CACHE[last.vault]) = 1
    /\ POST_EXECUTION_ACTION_CACHE[last.vault][1].destination = 2
    /\ followupCalls[last.vault] = 1
    /\ LastEventIs("EscrowDisbursed", last.vault)

\* C18: the destination number a follow-up resume reports is the number of the
\* destination whose entry it popped, for every pending queue a disbursement creates.
C18_DestinationNumberNamesPoppedEntry ==
    [][\A for \in VaultIds, reply_ok \in BOOLEAN :
          (FollowUpResume(for, reply_ok) /\ last'.ok)
          => /\ Len(last'.attrs) = 1
             /\ last'.attrs[1].key = "destination_msg"
             /\ last'.attrs[1].num =
                    POST_EXECUTION_ACTION_CACHE[last'.vault][1].destination]_vars

C20_DestinationsStayWellFormed ==
    [][/\ \A v \in VaultIds :
            \A stored \in {vaults[v].destinations, vaults'[v].destinations} :
                /\ Len(stored) \in 1..10
                /\ \A i \in DOMAIN stored : stored[i].allocation > 0
                /\ AllocationSum(stored) = 100
       /\ \A v \in VaultIds :
            (/\ vaults[v].status # "Cancelled"
             /\ UpdateBountyHandler(v, vaults[v].owner, Some(<<>>), NoAmount, NoInterval,
                                    NoStrategy, NoAmount))
            => /\ last'.ok
               /\ vaults'[v].destinations =
                      <<[address |-> vaults[v].owner, allocation |-> 100, msg |-> FALSE]>>]_vars

\* The owner emptied the destination list of a vault whose escrow had been disbursed to
\* two destinations: the owner alone is left.
C20_EmptyListStoredAsOwner ==
    /\ last.op = "update"
    /\ last.ok
    /\ vaults[last.vault].destinations = <<Destination("owner", 100, FALSE)>>
    /\ \E i \in DOMAIN POST_EXECUTION_ACTION_CACHE[last.vault] :
          POST_EXECUTION_ACTION_CACHE[last.vault][i].destination = 2

\* C21: a deposit into an Inactive vault leaves it Active exactly when the balance after
\* the deposit is at least the swap amount, and Inactive when it is still below it.
C21_DepositReactivatesOnlyWhenFunded ==
    [][\A v \in VaultIds :
          (Ran("deposit") /\ last'.ok /\ last'.vault = v /\ vaults[v].status = "Inactive")
          => vaults'[v].status =
                 IF vaults'[v].balance >= vaults'[v].swap_amount THEN "Active" ELSE "Inactive"]_vars

\* C22: a successful deposit that reactivates an Inactive vault saves one Time trigger
\* for it when it had none and leaves the trigger it had untouched otherwise; a deposit
\* into a vault that was not Inactive, and every deposit for the other vaults, leaves
\* the triggers as they were.
C22_DepositCreatesTriggerOnlyWhenNone ==
    [][\A v \in VaultIds :
          (Ran("deposit") /\ last'.ok /\ last'.vault = v)
          => /\ (vaults[v].status = "Inactive" /\ triggers[v] = NoTrigger)
                    => triggers'[v].kind = "Time"
             /\ (vaults[v].status # "Inactive" \/ triggers[v] # NoTrigger)
                    => triggers'[v] = triggers[v]
             /\ \A w \in VaultIds \ {v} : triggers'[w] = triggers[w]]_vars

\* A deposit reactivated a vault whose trigger had been taken for a swap still
\* outstanding: the vault holds a new Time trigger.
C22_TriggerCreatedAtReactivation ==
    /\ last.op = "deposit"
    /\ last.ok
    /\ vaults[last.vault].status = "Active"
    /\ swapCalls[last.vault] > 0
    /\ triggers[last.vault] = TimeTrigger(now + vaults[last.vault].time_interval)
    /\ Len(events) = 1
    /\ LastEventIs("FundsDeposited", last.vault)

\* C23: a deposit made while the contract is paused, with no coin or several coins, by
\* an address that is not the vault's owner, into a Cancelled vault, or with a coin of
\* another denom than the vault's balance is refused, and the vault, its trigger and the
\* event log stay as they were.
C23_BadDepositRefusedUnchanged ==
    [][\A v \in VaultIds, address \in {"owner", "stranger"}, funds \in DepositFunds :
          (/\ DepositHandler(v, address, funds)
           /\ \/ paused
              \/ Len(funds) # 1
              \/ address # vaults[v].owner
              \/ vaults[v].status = "Cancelled"
              \/ \E i \in DOMAIN funds : funds[i].denom # BalanceDenom)
          => /\ ~last'.ok
             /\ last'.op = "deposit"
             /\ vaults' = vaults
             /\ triggers' = triggers
             /\ events' = events]_vars

\* a deposit refused over the pause, after an earlier one was taken
C23_RefusedWhilePaused ==
    /\ paused
    /\ last.op = "deposit"
    /\ ~last.ok
    /\ last.error = "contract is paused"
    /\ LastEventIs("FundsDeposited", 1)

\* C24: an execute-trigger request for a Time trigger whose target time is later than the
\* block time is refused with 'trigger execution time has not yet elapsed' and changes
\* nothing (the trigger stays, no continuation entry is written, no swap is issued); once
\* the block time has reached the target time the same request goes through.
C24_EarlyExecutionRefusedDueOneRuns ==
    [][\A v \in VaultIds :
          (/\ ExecuteTriggerHandler(v)
           /\ triggers[v].kind = "Time"
           /\ vaults[v].status # "Cancelled")
          => IF now < triggers[v].target_time
             THEN /\ ~last'.ok
                  /\ last'.error = "trigger execution time has not yet elapsed"
                  /\ last'.msgs = <<>>
                  /\ UNCHANGED store
                  /\ UNCHANGED swapCalls
             ELSE /\ last'.ok
                  /\ triggers'[v] = NoTrigger
                  /\ CACHE' = v
                  /\ swapCalls'[v] = swapCalls[v] + 1]_vars

\* an execution refused as early: the vault's trigger, set by a deposit, is still ahead
C24_RefusedAsEarly ==
    /\ last.op = "execute_trigger"
    /\ last.error = "trigger execution time has not yet elapsed"
    /\ \E v \in VaultIds : /\ triggers[v].kind = "Time"
                           /\ triggers[v].target_time > now
                           /\ vaults[v].status = "Active"

\* C25: a vault has at most one trigger record.  A deposit writes one only for a vault
\* that has none; an update of the interval replaces the vault's trigger by one Time
\* trigger of the new interval and writes none for a vault without one; a swap resume
\* puts the next Time trigger in the place of the one it found.  None of them touches
\* the trigger of another vault.
C25_OneTriggerPerVault ==
    [][\A v \in VaultIds :
          /\ (Ran("deposit") /\ triggers'[v] # triggers[v])
                => /\ triggers[v] = NoTrigger
                   /\ last'.vault = v
          /\ (Ran("update") /\ last'.ok /\ last'.vault = v)
                => triggers'[v] =
                       IF triggers[v] = NoTrigger
                       THEN NoTrigger
                       ELSE TimeTrigger(
                                (IF vaults[v].started_at = NoTime THEN now
                                 ELSE vaults[v].started_at) + vaults'[v].time_interval)
          /\ (Ran("update") /\ last'.vault # v) => triggers'[v] = triggers[v]
          /\ (Ran("after_fin_swap") /\ last'.ok /\ last'.vault = v)
                => /\ triggers[v] # NoTrigger
                   /\ triggers'[v] = TimeTrigger(triggers[v].target_time
                                                    + vaults[v].time_interval)
          /\ (Ran("after_fin_swap") /\ last'.vault # v) => triggers'[v] = triggers[v]]_vars

\* the trigger of a vault replaced by an update of its interval, after a swap resume
\* had saved it
C25_TriggerReplacedByIntervalUpdate ==
    /\ last.op = "update"
    /\ last.ok
    /\ vaults[last.vault].time_interval = 2
    /\ vaults[last.vault].started_at # NoTime
    /\ triggers[last.vault] = TimeTrigger(vaults[last.vault].started_at + 2)
    /\ \E i \in DOMAIN events : events[i].kind \in {"ExecutionCompleted", "ExecutionSkipped"}

\* C26: the event log only grows at its end: the events already stored stay as they
\* are, and each event added has an id greater than the id of every event stored
\* before it, the first event having id 1.
C26_EventLogIsAppendOnly ==
    [][/\ Len(events') >= Len(events)
       /\ SubSeq(events', 1, Len(events)) = events
       /\ \A i \in (Len(events) + 1)..Len(events') :
             /\ \A j \in 1..(i - 1) : events'[j].id < events'[i].id
             /\ events'[1].id = 1]_vars

\* a log of three events, the last one just appended by a cancel
C26_ThreeEventsLogged ==
    /\ Len(events) = 3
    /\ events[3].id = 3
    /\ events[1].kind = "FundsDeposited"
    /\ events[3].kind = "Cancelled"
    /\ last.op = "cancel"
    /\ last.ok

\* C27 (as stated): every request that succeeds (deposit, cancel, update, disburse
\* escrow, swap resume, follow-up resume) appends at least one event for its vault.
C27_EverySuccessAppendsAnEvent ==
    [][(/\ last'.ok
        /\ now' = now
        /\ last'.op \in {"deposit", "cancel", "update", "disburse_escrow",
                          "after_fin_swap", "handle_failed_automation"})
       => /\ Len(events') > Len(events)
          /\ events'[Len(events')].resource_id = last'.vault]_vars

\* C27 (amended): a deposit, a cancel, an update, a swap resume, a disbursement of an
\* escrow that is not empty and the resume of a follow-up call that failed append one
\* event for the vault the handler works on, when they succeed; a disbursement of an
\* empty escrow and the resume of a follow-up call that went through succeed and
\* append none.
C27_SuccessAppendsUnlessNothingHappened ==
    [][(/\ last'.ok
        /\ now' = now
        /\ last'.op \in {"deposit", "cancel", "update", "disburse_escrow",
                          "after_fin_swap", "handle_failed_automation"})
       => IF \/ /\ last'.op = "disburse_escrow"
                /\ vaults[last'.vault].escrowed_amount = 0
             \/ /\ last'.op = "handle_failed_automation"
                /\ last'.attrs[1].value = "succeeded"
          THEN events' = events
          ELSE /\ Len(events') = Len(events) + 1
               /\ SubSeq(events', 1, Len(events)) = events
               /\ events'[Len(events')].resource_id = last'.vault]_vars

\* a follow-up call that went through has been resumed: the last event is still the
\* disbursement that issued it
C27_FollowUpSucceededWithoutEvent ==
    /\ last.op = "handle_failed_automation"
    /\ last.ok
    /\ last.attrs[1].value = "succeeded"
    /\ LastEventIs("EscrowDisbursed", last.vault)

\* C28: a swap resume that succeeds with received amount R sends the fee collector
\* floor(R * fee_percent / ONE_HUNDRED) and sends for each destination
\* floor((R - fee) * allocation); the fee and the shares together never exceed R, and
\* what the truncation of the shares leaves over is sent to nobody.
C28_FeeAndSharesAreFloorsWithinReceived ==
    [][\A v \in VaultIds, reply \in SwapReplies :
          (SwapResume(v, reply) /\ reply.ok /\ last'.ok)
          => LET R == reply.received
                 fee == (R * FeePercent) \div ONE_HUNDRED
                 destinations == vaults[last'.vault].destinations
                 sends == BankSends(last'.msgs)
             IN  /\ Len(sends) = Len(destinations) + 1
                 /\ \A i \in DOMAIN destinations :
                       sends[i].amount = ((R - fee) * destinations[i].allocation) \div 100
                 /\ sends[Len(sends)] = BankSend(FeeCollector, fee)
                 /\ TotalSent(sends) <= R]_vars

\* a swap resume has shared out 120 between two destinations of nine and one tenth:
\* 2 to the fee collector, 106 and 11 to the destinations, 1 to nobody
C28_OneLeftUndistributed ==
    /\ last.op = "after_fin_swap"
    /\ last.ok
    /\ vaults[last.vault].destinations = Skewed
    /\ Len(BankSends(last.msgs)) = 3
    /\ BankSends(last.msgs)[1].amount = 106
    /\ BankSends(last.msgs)[2].amount = 11
    /\ BankSends(last.msgs)[3] = BankSend(FeeCollector, 2)
    /\ TotalSent(BankSends(last.msgs)) = 119
\* C29: a reply that carries the ignore-result id succeeds with an empty response and
\* changes nothing stored, whether the call it answers went through or failed; a reply
\* that carries an id the entry point does not handle fails with the 'unhandled reply
\* id' error and changes nothing stored.
C29_IgnoredAndUnhandledRepliesChangeNothing ==
    [][\A v \in VaultIds, reply_ok \in BOOLEAN :
          /\ Reply(FAIL_SILENTLY_REPLY_ID, v, reply_ok)
                => /\ last'.ok
                   /\ last'.msgs = <<>>
                   /\ last'.attrs = <<>>
                   /\ UNCHANGED store
                   /\ UNCHANGED <<swapCalls, followupCalls>>
          /\ \A id \in ReplyIds \ {AFTER_LIMIT_ORDER_PLACED_REPLY_ID,
                                     AFTER_FAILED_AUTOMATION_REPLY_ID,
                                     AFTER_DELEGATION_REPLY_ID, FAIL_SILENTLY_REPLY_ID} :
                Reply(id, v, reply_ok)
                    => /\ ~last'.ok
                       /\ last'.error = "unhandled DCA contract reply id"
                       /\ UNCHANGED store
                       /\ UNCHANGED <<swapCalls, followupCalls>>]_vars

\* a reply of an unhandled id was refused while a follow-up call was outstanding and
\* its entry still queued
C29_UnhandledReplyRefused ==
    /\ last.op = "reply"
    /\ ~last.ok
    /\ last.error = "unhandled DCA contract reply id"
    /\ \E v \in VaultIds : followupCalls[v] > 0 /\ POST_EXECUTION_ACTION_CACHE[v] # <<>>

\* C30: an update that names a swap amount together with a minimum receive amount, or
\* together with a swap adjustment strategy, is refused, and the vault, its trigger and
\* the event log stay as they were; from the owner of a vault that is not cancelled it
\* is refused over the combination.
C30_SwapAmountWithScaledFieldRefused ==
    [][\A v \in VaultIds, sender \in {"owner", "stranger"},
          swap_amount \in SwapAmountUpdates,
          minimum_receive_amount \in MinimumReceiveAmountUpdates,
          swap_adjustment_strategy \in StrategyUpdates :
          (/\ swap_amount.some
           /\ minimum_receive_amount.some \/ swap_adjustment_strategy.some
           /\ UpdateBountyHandler(v, sender, NoDestinations, minimum_receive_amount,
                                  NoInterval, swap_adjustment_strategy, swap_amount))
          => /\ ~last'.ok
             /\ vaults' = vaults
             /\ triggers' = triggers
             /\ events' = events
             /\ (sender = vaults[v].owner /\ vaults[v].status # "Cancelled")
                   => last'.error =
                        IF minimum_receive_amount.some
                        THEN "cannot update swap amount and minimum receive amount at the same time."
                        ELSE "cannot update swap amount and swap adjustment strategy at the same time."]_vars

\* an update refused over the swap amount named with a strategy, for a vault whose
\* minimum receive amount an earlier update had set and scaled
C30_RefusedOverCombination ==
    /\ last.op = "update"
    /\ ~last.ok
    /\ last.error = "cannot update swap amount and swap adjustment strategy at the same time."
    /\ vaults[1].minimum_receive_amount = Some(1)
    /\ vaults[1].swap_adjustment_strategy = Some(WeightedScale(1, 2))
    /\ vaults[1].swap_amount = 1
    /\ LastEventIs("Updated", 1)

\* C31: the expected completion date of a vault whose swap amount is not zero, taken
\* at block time now, is now + floor(remaining / swap_amount) * interval, where
\* remaining is the balance or, with a baseline, the larger of the balance and the
\* deposits the baseline has not swapped; with nothing remaining it is now.
C31_CompletionDateProjectsRemainingBalance ==
    [][\A v \in VaultIds :
          (/\ Ran("cancel")
           /\ last'.ok
           /\ last'.vault = v
           /\ vaults[v].escrowed_amount > 0)
          => LET bounty == vaults[v]
                 left == bounty.deposited_amount - bounty.performance_assessment_strategy.value
                 remaining == IF bounty.performance_assessment_strategy.some /\ left > bounty.balance
                              THEN left
                              ELSE bounty.balance
             IN  /\ bounty.swap_amount > 0
                 /\ tasks'[v] = now + (remaining \div bounty.swap_amount) * bounty.time_interval
                 /\ remaining = 0 => tasks'[v] = now]_vars

\* a date taken at time 1 for a vault with a balance below 2, 4 deposited and a
\* baseline that has swapped 2 of them: two swaps of 1 remain, at an interval of 2
C31_DateFromBaselineRemainder ==
    /\ last.op = "cancel"
    /\ last.ok
    /\ now = 1
    /\ vaults[1].deposited_amount = 4
    /\ vaults[1].performance_assessment_strategy = CompareToStandardDca(2)
    /\ vaults[1].swap_amount = 1
    /\ vaults[1].time_interval = 2
    /\ tasks[1] = 5

\* C32: after any sequence of deposits, cancels and swap resumes, the list of an owner's
\* vaults with a status filter is exactly the owner's vaults whose current status is the
\* filter, and the list without a filter is exactly the owner's vaults, each as it is
\* stored now and in ascending order of id: no entry of a former status remains.
StatusFilters == {Some("Scheduled"), Some("Active"), Some("Inactive"), Some("Cancelled")}

VaultsOf(address, status) ==
    LET ids == Ascending({v \in VaultIds :
                   /\ vaults[v].owner = address
                   /\ status.some => vaults[v].status = status.value})
    IN  [i \in 1..Len(ids) |-> BountyFrom(ids[i], vaults[ids[i]])]

C32_ListsFollowCurrentStatus ==
    \A address \in Senders :
        /\ \A status \in StatusFilters :
              GetBountiesByAddress(address, status, None, None) = VaultsOf(address, status)
        /\ GetBountiesByAddress(address, None, None, None) = VaultsOf(address, None)

\* Vault 1 went from Inactive to Active by a deposit and then to Cancelled: it is listed
\* under Cancelled and under neither former status, next to the other owner's vault.
C32_ListedUnderThirdStatus ==
    /\ vaults[1].status = "Cancelled"
    /\ Len(events) >= 2
    /\ events[1].kind = "FundsDeposited" /\ events[1].resource_id = 1
    /\ Len(GetBountiesByAddress("owner", Some("Cancelled"), None, None)) = 1
    /\ GetBountiesByAddress("owner", Some("Active"), None, None) = <<>>
    /\ GetBountiesByAddress("owner", Some("Inactive"), None, None) = <<>>
    /\ Len(GetBountiesByAddress("stranger", None, None, None)) = 1

\* the ids of the pages a client reads one after the other, each page asked for with the
\* last id of the page before as start_after, until a page comes back empty
RECURSIVE Paged(_, _, _, _)
Paged(start_after, limit, reverse, pages) ==
    LET page == GetBounties(start_after, Some(limit), Some(reverse))
    IN  IF pages = 0 \/ page = <<>>
        THEN <<>>
        ELSE [i \in 1..Len(page) |-> page[i].id]
             \o Paged(Some(page[Len(page)].id), limit, reverse, pages - 1)

\* C33: paging through the list of vaults with the last id of the previous page as
\* start_after returns every stored vault exactly once, in both orders; an ascending
\* page holds only ids above start_after in ascending order, a reversed page only ids
\* below start_after in descending order, and a page has at most limit entries.
C33_PagingReturnsEveryVaultOnce ==
    \A reverse \in BOOLEAN, limit \in 1..2 :
        /\ LET ids == Paged(None, limit, reverse, Cardinality(VaultIds) + 1)
           IN  /\ Len(ids) = Cardinality(DOMAIN vaults)
               /\ {ids[i] : i \in 1..Len(ids)} = DOMAIN vaults
        /\ \A start_after \in VaultIds :
              LET page == GetBounties(Some(start_after), Some(limit), Some(reverse))
              IN  /\ Len(page) <= limit
                  /\ \A i \in 1..Len(page) :
                        IF reverse THEN page[i].id < start_after ELSE page[i].id > start_after
                  /\ \A i \in 1..(Len(page) - 1) :
                        IF reverse THEN page[i].id > page[i + 1].id
                                   ELSE page[i].id < page[i + 1].id

\* C34: a successful deposit of amount a leaves the vault's balance and its deposited
\* amount each exactly a above what they were, appends one funds-deposited event of the
\* vault that carries a, and its response holds no outgoing message.
C34_DepositAddsAmountAndLogsIt ==
    [][\A v \in VaultIds, funds \in DepositFunds :
          (/\ Ran("deposit") /\ last'.ok /\ last'.vault = v
           /\ DepositHandler(v, vaults[v].owner, funds))
          => /\ vaults'[v].balance = vaults[v].balance + funds[1].amount
             /\ vaults'[v].deposited_amount = vaults[v].deposited_amount + funds[1].amount
             /\ Appended("FundsDeposited", v)
             /\ events'[Len(events')].data.amount = funds[1].amount
             /\ last'.msgs = <<>>]_vars

\* Vault 1 held 1 of 1 deposited; the owner's deposit of 3 was accepted.
C34_ThreeDepositedOnTopOfOne ==
    /\ last.op = "deposit" /\ last.ok /\ last.vault = 1
    /\ vaults[1].balance = 4
    /\ vaults[1].deposited_amount = 4
    /\ LastEventIs("FundsDeposited", 1)
    /\ events[Len(events)].data.amount = 3
    /\ last.msgs = <<>>

\* C35: an accepted deposit into a Scheduled vault leaves it Scheduled and one into an
\* Active vault leaves it Active; in both cases the trigger store is as it was (no
\* trigger is created) and the response holds no message.
C35_DepositKeepsRunningStatusAndTrigger ==
    [][\A v \in VaultIds, amount \in DepositAmounts :
          (/\ vaults[v].status \in {"Scheduled", "Active"}
           /\ Ran("deposit") /\ last'.ok /\ last'.vault = v
           /\ DepositHandler(v, vaults[v].owner, <<Coin(BalanceDenom, amount)>>))
          => /\ vaults'[v].status = vaults[v].status
             /\ triggers' = triggers
             /\ last'.msgs = <<>>]_vars

\* A deposit into the Scheduled vault 1 was accepted: it is Scheduled still and holds the
\* trigger of its creation.
C35_ScheduledVaultFunded ==
    /\ last.op = "deposit" /\ last.ok /\ last.vault = 1
    /\ vaults[1].status = "Scheduled"
    /\ vaults[1].balance > 1
    /\ triggers[1] = TimeTrigger(1)

\* C36: an accepted update that names a time_interval, on a vault that has a trigger of
\* either kind, leaves the vault with the one Time trigger whose target time is
\* get_next_target_time(now, started_at or now, the new interval); on a vault without a
\* trigger it leaves the vault without one.  The triggers of other vaults stay.
C36_IntervalUpdateReschedulesExistingTrigger ==
    [][\A v \in VaultIds, time_interval \in TimeIntervals :
          (/\ Ran("update") /\ last'.ok /\ last'.vault = v
           /\ UpdateBountyHandler(v, vaults[v].owner, NoDestinations, NoAmount,
                                  Some(time_interval), NoStrategy, NoAmount))
          => /\ triggers[v] = NoTrigger => triggers'[v] = NoTrigger
             /\ triggers[v] # NoTrigger =>
                   /\ triggers'[v].kind = "Time"
                   /\ triggers'[v].target_time =
                          GetNextTargetTime(now,
                                            IF vaults[v].started_at = NoTime THEN now
                                            ELSE vaults[v].started_at,
                                            time_interval)
             /\ \A w \in VaultIds \ {v} : triggers'[w] = triggers[w]]_vars

\* The Scheduled vault 1 held a Price trigger and was never started; at block time 1 its
\* interval was set to 2 and its trigger is a Time trigger at 3.
C36_PriceTriggerReplacedByTimeTrigger ==
    /\ last.op = "update" /\ last.ok /\ last.vault = 1
    /\ now = 1
    /\ vaults[1].status = "Scheduled"
    /\ vaults[1].time_interval = 2
    /\ triggers[1] = TimeTrigger(3)
    /\ Len(events) = 1

\* C37: an accepted update leaves the vault's status, balance, deposited amount and
\* escrowed amount as they were, and every other vault as it was: a new swap amount
\* does not decide Active or Inactive again, whether the balance covers it or not.
C37_UpdateKeepsStatusAndAmounts ==
    [][\A v \in VaultIds :
          (Ran("update") /\ last'.ok /\ last'.vault = v)
          => /\ vaults'[v].status = vaults[v].status
             /\ vaults'[v].balance = vaults[v].balance
             /\ vaults'[v].deposited_amount = vaults[v].deposited_amount
             /\ vaults'[v].escrowed_amount = vaults[v].escrowed_amount
             /\ \A w \in VaultIds \ {v} : vaults'[w] = vaults[w]]_vars

\* The swap amount of the Active vault 1 was raised above its balance and that of the
\* Inactive vault 2 lowered to its balance: each kept its status.
C37_ActiveBelowAndInactiveAtSwapAmount ==
    /\ last.op = "update" /\ last.ok
    /\ vaults[1].status = "Active" /\ vaults[1].balance = 3 /\ vaults[1].swap_amount = 4
    /\ vaults[2].status = "Inactive" /\ vaults[2].balance = 1 /\ vaults[2].swap_amount = 1

\* C38: in every reachable state a vault has a disburse-escrow task only if its
\* escrowed amount is above zero, and a vault has at most one task: a task is saved
\* only for a vault that has none.
C38_TaskOnlyWithEscrowAndOnlyOne ==
    /\ [](\A v \in VaultIds : tasks[v] # NoTime => vaults[v].escrowed_amount > 0)
    /\ [][\A v \in VaultIds :
             (tasks'[v] # NoTime /\ tasks'[v] # tasks[v]) => tasks[v] = NoTime]_vars

\* Vault 1 was cancelled with escrow, which saved its task; the escrow was disbursed
\* when due and the task is gone with it.
C38_TaskGoneWithDisbursedEscrow ==
    /\ LastEventIs("EscrowDisbursed", 1)
    /\ \E i \in DOMAIN events : events[i].kind = "Cancelled" /\ events[i].resource_id = 1
    /\ vaults[1].escrowed_amount = 0
    /\ tasks[1] = NoTime
    /\ now = 1

\* C39: a cancel request from the owner or the admin of a vault that is not cancelled
\* succeeds, whatever the vault's balance, escrowed amount, swap amount and trigger.
C39_LiveVaultCanBeCancelled ==
    [][\A v \in VaultIds, sender \in {"owner", Admin} :
          (/\ vaults[v].status # "Cancelled"
           /\ sender \in {vaults[v].owner, Admin}
           /\ Ran("cancel")
           /\ CancelBountyHandler(v, sender))
          => /\ last'.ok
             /\ vaults'[v].status = "Cancelled"]_vars

\* C40: a disburse-escrow request of an executor for a vault that holds escrow and has
\* no task is accepted whatever the vault's status, Active and Scheduled included; it
\* empties the escrow and leaves the vault's status and balance and every trigger as
\* they were.
C40_DisbursedWithoutTaskInAnyStatus ==
    [][\A v \in VaultIds, performance_fee \in 0..2 :
          (/\ vaults[v].escrowed_amount > 0
           /\ tasks[v] = NoTime
           /\ Ran("disburse_escrow")
           /\ DisburseEscrowHandler(v, Admin, performance_fee))
          => /\ last'.ok
             /\ vaults'[v].escrowed_amount = 0
             /\ vaults'[v].status = vaults[v].status
             /\ vaults'[v].balance = vaults[v].balance
             /\ triggers' = triggers
             /\ tasks' = tasks]_vars

\* The escrow of the Active vault 1, which never had a task, was disbursed: the vault
\* is Active still, with its balance and its trigger.
C40_ActiveVaultDisbursed ==
    /\ LastEventIs("EscrowDisbursed", 1)
    /\ last.op = "disburse_escrow" /\ last.ok
    /\ vaults[1].status = "Active"
    /\ vaults[1].balance = 3
    /\ vaults[1].escrowed_amount = 0
    /\ triggers[1] = TimeTrigger(0)
    /\ tasks[1] = NoTime

====
